---- MODULE Spec2Model ----
(***************************************************************************)
(* State-machine model of the panel editor of src/src/App.jsx: the         *)
(* per-end installation state of every panel, the pointer gestures that    *)
(* change it (click, box selection), and the linear undo/redo history.     *)
(*                                                                         *)
(* Canvas coordinates are integers in hundredths of a canvas unit, so the  *)
(* drag threshold 0.05 is 5 and the canvas 1200 x 900 is 120000 x 90000.   *)
(* Geographic coordinates are integers in units of 0.00001 degree, so the  *)
(* padding 0.001 is 100.                                                   *)
(***************************************************************************)
EXTENDS Integers, Sequences, FiniteSets, TLC

\* ------------------------------------------------------------------------
\* Bounds of the model
\* ------------------------------------------------------------------------

\* Longest history the model lets a gesture build.
MaxHistory == 4

\* Most notes the model lets the user create.
MaxNotes == 2

\* Latest value of the clock.
MaxClock == 2

\* Most pans and zooms the model lets the user make.
MaxViewMoves == 2

\* Longest daily log the model lets the form build.
MaxLog == 2

\* Bits of the significand of a Number.
MantissaBits == 8

\* Most snapshots and most notes of a session that works on panels and notes
\* in turn.
MixedHistory == 2
MixedNotes == 1

\* ------------------------------------------------------------------------
\* Program constants
\* ------------------------------------------------------------------------

\* PANEL_STATES (App.jsx 12-16); UNDEF is a property absent from an object.
NONE == "null"
MC4_INSTALLED == "mc4"
TERMINATED == "terminated"
UNDEF == "undefined"

PANEL_STATES == {NONE, MC4_INSTALLED, TERMINATED}

\* dx < 0.05 && dy < 0.05, in hundredths of a canvas unit.
DragThreshold == 5

\* const clickRadius = 5, in hundredths of a canvas unit.
ClickRadius == 500

\* const baseRadius = 4 of the note marker, at the zoom of the loaded view.
MarkerRadius == 400

\* const padding = 0.001, in units of 0.00001 degree.
BoundsPadding == 100

\* const width = 1200; const height = 900, in hundredths of a canvas unit.
CanvasWidth == 120000
CanvasHeight == 90000

\* ------------------------------------------------------------------------
\* Loaded geometry (the static GeoJSON input of the session)
\* ------------------------------------------------------------------------

Pt(px, py) == [x |-> px, y |-> py]

\* panels.features[i].geometry.coordinates: two closed rings, 4 x 1 canvas
\* units, and a malformed feature of a single vertex that lies between them.
PanelCoords ==
    0 :> << <<100, 601>>, <<104, 601>>, <<104, 600>>, <<100, 600>>, <<100, 601>> >>
 @@ 1 :> << <<100, 598>>, <<104, 598>>, <<104, 597>>, <<100, 597>>, <<100, 598>> >>
 @@ 2 :> << <<100, 599>> >>

PanelIdx == DOMAIN PanelCoords

\* line.features[*].geometry.coordinates: the site boundary.
LineCoords == << <<0, 0>>, <<1000, 0>>, <<1000, 700>>, <<0, 700>> >>

SeqRange(s) == {s[i] : i \in DOMAIN s}

AllCoords ==
    UNION {SeqRange(PanelCoords[i]) : i \in PanelIdx} \cup SeqRange(LineCoords)

SetMin(S) == CHOOSE m \in S : \A n \in S : m <= n
SetMax(S) == CHOOSE m \in S : \A n \in S : m >= n

\* The bounds of the load effect: the extent of all coordinates, padded.
boundsOf(lngs, lats) ==
    [minLng |-> SetMin(lngs) - BoundsPadding,
     maxLng |-> SetMax(lngs) + BoundsPadding,
     minLat |-> SetMin(lats) - BoundsPadding,
     maxLat |-> SetMax(lats) + BoundsPadding]

\* boundsRef.current after the load effect.
Bounds == boundsOf({c[1] : c \in AllCoords}, {c[2] : c \in AllCoords})

\* The two lines of toSvgCoords, for bounds b.
project(b, lng, lat) ==
    Pt(((lng - b.minLng) * CanvasWidth) \div (b.maxLng - b.minLng),
       ((b.maxLat - lat) * CanvasHeight) \div (b.maxLat - b.minLat))

toSvgCoords(lng, lat) == project(Bounds, lng, lat)

\* ------------------------------------------------------------------------
\* Panel ends
\* ------------------------------------------------------------------------

\* The ring without its closing point when first and last coincide.
uniqueCoords(coords) ==
    IF Len(coords) > 0 /\ coords[1] = coords[Len(coords)]
    THEN SubSeq(coords, 1, Len(coords) - 1)
    ELSE coords

\* uniqueCoords.map(c => toSvgCoords(c[0], c[1]))
mapToSvg(u) == [i \in 1..Len(u) |-> toSvgCoords(u[i][1], u[i][2])]

svgPts(panelIndex) == mapToSvg(uniqueCoords(PanelCoords[panelIndex]))

\* Squared length stands for Math.hypot: the order of lengths is the same.
\* Edge centres are kept doubled (p1 + p2) so that they stay integers.
panelEdges(pts) ==
    [i \in 1..Len(pts) |->
        LET p1 == pts[i]
            p2 == pts[(i % Len(pts)) + 1]
        IN  [len2 |-> (p2.x - p1.x) * (p2.x - p1.x) + (p2.y - p1.y) * (p2.y - p1.y),
             center2 |-> Pt(p1.x + p2.x, p1.y + p2.y)]]

ByLength(a, b) == a.len2 < b.len2

ByCenter(a, b) ==
    \/ a.center2.x < b.center2.x
    \/ a.center2.x = b.center2.x /\ a.center2.y < b.center2.y

\* The comparator of a sort says a goes before b.
Less(comparator, a, b) ==
    IF comparator = "ByLength" THEN ByLength(a, b) ELSE ByCenter(a, b)

\* Array.prototype.sort is stable: an element goes after every element that
\* the comparator does not put after it, equal ones staying in input order.
StableSort(s, comparator) ==
    LET rank(i) == 1 + Cardinality({j \in DOMAIN s :
                        \/ Less(comparator, s[j], s[i])
                        \/ ~Less(comparator, s[i], s[j]) /\ j < i})
    IN  [k \in DOMAIN s |-> s[CHOOSE i \in DOMAIN s : rank(i) = k]]

\* edges.sort((a, b) => a.len - b.len); edges.slice(0, 2)
twoShortest(edges) ==
    SubSeq(StableSort(edges, "ByLength"), 1, IF Len(edges) < 2 THEN Len(edges) ELSE 2)

\* 0 / 0 of the centre of a polygon without points.
NaNPoint == [x |-> "NaN", y |-> "NaN"]

RECURSIVE sumOf(_, _)
\* svgPts.reduce((sum, p) => sum + p[axis], 0)
sumOf(pts, axis) ==
    IF pts = <<>> THEN 0 ELSE Head(pts)[axis] + sumOf(Tail(pts), axis)

\* The centre of the points, doubled as the edge centres are.
centerOf(pts) ==
    IF Len(pts) = 0 THEN NaNPoint
    ELSE Pt((2 * sumOf(pts, "x")) \div Len(pts), (2 * sumOf(pts, "y")) \div Len(pts))

\* shortEdges.sort by (center.x, center.y), and the result of getPanelEnds:
\* shortEdges[0]?.center || center, shortEdges[1]?.center || center.
endsRecord(pts, shortEdges) ==
    [left |-> IF Len(shortEdges) >= 1
              THEN StableSort(shortEdges, "ByCenter")[1].center2 ELSE centerOf(pts),
     right |-> IF Len(shortEdges) >= 2
               THEN StableSort(shortEdges, "ByCenter")[2].center2 ELSE centerOf(pts),
     allPoints |-> pts]

endsOfPoints(pts) == endsRecord(pts, twoShortest(panelEdges(pts)))

\* The body of getPanelEnds: the centres (doubled) of the two shortest edges,
\* left first.
panelEnds(panelIndex) == endsOfPoints(svgPts(panelIndex))

\* The geometry is fixed for the session: the ends of every panel, computed once.
PanelEndsTable == [i \in PanelIdx |-> panelEnds(i)]

getPanelEnds(panelIndex) == PanelEndsTable[panelIndex]

\* ------------------------------------------------------------------------
\* Geometry utilities
\* ------------------------------------------------------------------------

Abs(n) == IF n < 0 THEN -n ELSE n
Min2(a, b) == IF a < b THEN a ELSE b
Max2(a, b) == IF a > b THEN a ELSE b

isPointInBox(point, minX, maxX, minY, maxY) ==
    point.x >= minX /\ point.x <= maxX /\ point.y >= minY /\ point.y <= maxY

\* On integer coordinates the tolerance eps = 1e-6 of the source is exact:
\* |o| < eps is o = 0, and the eps-widened bounding test is the plain one.
orient(a, b, c) == (b.y - a.y) * (c.x - b.x) - (b.x - a.x) * (c.y - b.y)

onSegment(a, b, c) ==
    /\ Min2(a.x, b.x) <= c.x /\ c.x <= Max2(a.x, b.x)
    /\ Min2(a.y, b.y) <= c.y /\ c.y <= Max2(a.y, b.y)

segmentsIntersect(p1, p2, q1, q2) ==
    LET o1 == orient(p1, p2, q1)
        o2 == orient(p1, p2, q2)
        o3 == orient(q1, q2, p1)
        o4 == orient(q1, q2, p2)
    IN  \/ o1 = 0 /\ onSegment(p1, p2, q1)
        \/ o2 = 0 /\ onSegment(p1, p2, q2)
        \/ o3 = 0 /\ onSegment(q1, q2, p1)
        \/ o4 = 0 /\ onSegment(q1, q2, p2)
        \/ (o1 > 0) # (o2 > 0) /\ (o3 > 0) # (o4 > 0)

\* One edge (pj, pi) of the ray-casting test:
\*   ((yi > y) !== (yj > y)) && (x < (xj - xi) * (y - yi) / (yj - yi + 1e-9) + xi)
\* With n = (xj - xi) * (y - yi), d = yj - yi (a non-zero integer here) and
\* l = x - xi, the comparison l < n / (d + 1e-9) is decided on integers: by
\* the sign of l * d - n, and, when that is 0, by the 1e-9, which makes the
\* quotient smaller in size for d > 0 and larger for d < 0.
edgeCrossed(point, pi, pj) ==
    LET n == (pj.x - pi.x) * (point.y - pi.y)
        d == pj.y - pi.y
        l == point.x - pi.x
    IN  /\ (pi.y > point.y) # (pj.y > point.y)
        /\ IF d > 0
           THEN l * d < n \/ (l * d = n /\ l < 0)
           ELSE l * d > n \/ (l * d = n /\ l > 0)

\* inside is flipped once per crossed edge: the parity of the crossings.
isPointInPolygon(point, poly) ==
    LET prev(i) == IF i = 1 THEN Len(poly) ELSE i - 1
        crossed == {i \in DOMAIN poly : edgeCrossed(point, poly[i], poly[prev(i)])}
    IN  Cardinality(crossed) % 2 = 1

polygonMeetsBoxByVertex(allPoints, minX, maxX, minY, maxY) ==
    \E i \in DOMAIN allPoints : isPointInBox(allPoints[i], minX, maxX, minY, maxY)

\* The three tests of isPanelInSelection, for the points of one panel and the
\* rectangle of the selection.
polygonMeetsBox(allPoints, minX, maxX, minY, maxY) ==
    LET rectCorners == << Pt(minX, minY), Pt(maxX, minY), Pt(maxX, maxY), Pt(minX, maxY) >>
        next(i, n) == (i % n) + 1
    IN  /\ Len(allPoints) # 0
        /\ \/ \E i \in DOMAIN allPoints : isPointInBox(allPoints[i], minX, maxX, minY, maxY)
           \/ \E c \in 1..4 : isPointInPolygon(rectCorners[c], allPoints)
           \/ \E i \in DOMAIN allPoints : \E r \in 1..4 :
                 segmentsIntersect(allPoints[i], allPoints[next(i, Len(allPoints))],
                                   rectCorners[r], rectCorners[next(r, 4)])

isPanelInSelection(panelIndex, selStart, selEnd) ==
    polygonMeetsBox(getPanelEnds(panelIndex).allPoints,
                    Min2(selStart.x, selEnd.x), Max2(selStart.x, selEnd.x),
                    Min2(selStart.y, selEnd.y), Max2(selStart.y, selEnd.y))

\* ------------------------------------------------------------------------
\* Numbers
\* ------------------------------------------------------------------------

\* The arithmetic of the transform as the engine does it: a Number is a
\* significand times a power of two, and the result of every operation is
\* rounded to the nearest Number, ties to the even significand. NotFinite
\* stands for NaN, Infinity and -Infinity. The significand, of 53 bits in the
\* engine, has MantissaBits bits here; exponents are not limited.
Num(m, e) == [m |-> m, e |-> e]

NotFinite == Num(0, 1)

isFinite(a) == a # NotFinite

RECURSIVE pow2(_)
pow2(k) == IF k <= 0 THEN 1 ELSE 2 * pow2(k - 1)

RECURSIVE bitLength(_)
bitLength(n) == IF n = 0 THEN 0 ELSE 1 + bitLength(n \div 2)

RECURSIVE canonical(_, _)
\* The one way a value is written: an odd significand, or Num(0, 0).
canonical(m, e) ==
    IF m = 0 THEN Num(0, 0)
    ELSE IF m % 2 = 0 THEN canonical(m \div 2, e + 1)
    ELSE Num(m, e)

\* The Number nearest to m * 2^e.
rounded(m, e) ==
    LET a == Abs(m)
        k == bitLength(a) - MantissaBits
        q == a \div pow2(k)
        r == a % pow2(k)
        n == IF 2 * r > pow2(k) \/ (2 * r = pow2(k) /\ q % 2 = 1) THEN q + 1 ELSE q
    IN  IF k <= 0 THEN canonical(m, e)
        ELSE canonical(IF m < 0 THEN -n ELSE n, e + k)

\* A numeric literal or a JSON number that is an integer.
fromInt(n) == rounded(n, 0)

\* a * b
times(a, b) ==
    IF ~isFinite(a) \/ ~isFinite(b) THEN NotFinite
    ELSE rounded(a.m * b.m, a.e + b.e)

\* a + b
plus(a, b) ==
    IF ~isFinite(a) \/ ~isFinite(b) THEN NotFinite
    ELSE rounded(a.m * pow2(a.e - Min2(a.e, b.e)) + b.m * pow2(b.e - Min2(a.e, b.e)),
                 Min2(a.e, b.e))

\* a - b
minus(a, b) ==
    IF ~isFinite(a) \/ ~isFinite(b) THEN NotFinite
    ELSE plus(a, Num(-b.m, b.e))

\* a / b: the quotient of the significands, each first scaled to MantissaBits
\* bits, is taken with two bits to spare and a last bit that tells whether
\* anything was left over, and then rounded. x / 0 is Infinity or NaN.
dividedBy(a, b) ==
    IF ~isFinite(a) \/ ~isFinite(b) \/ b.m = 0 THEN NotFinite
    ELSE IF a.m = 0 THEN Num(0, 0)
    ELSE LET sa == MantissaBits - bitLength(Abs(a.m))
             sb == MantissaBits - bitLength(Abs(b.m))
             na == Abs(a.m) * pow2(sa + MantissaBits + 2)
             nb == Abs(b.m) * pow2(sb)
             all == 2 * (na \div nb) + (IF na % nb = 0 THEN 0 ELSE 1)
         IN  rounded(IF (a.m < 0) # (b.m < 0) THEN -all ELSE all,
                     (a.e - sa - MantissaBits - 2) - (b.e - sb) - 1)

\* The bounds of the load effect in Numbers: Math.min and Math.max of the
\* coordinates, then minus and plus the padding.
numBounds(lngs, lats) ==
    [minLng |-> minus(fromInt(SetMin(lngs)), fromInt(BoundsPadding)),
     maxLng |-> plus(fromInt(SetMax(lngs)), fromInt(BoundsPadding)),
     minLat |-> minus(fromInt(SetMin(lats)), fromInt(BoundsPadding)),
     maxLat |-> plus(fromInt(SetMax(lats)), fromInt(BoundsPadding))]

\* canvasSize, in canvas units.
NumCanvas == [width |-> fromInt(CanvasWidth \div 100), height |-> fromInt(CanvasHeight \div 100)]

\* toSvgCoords in Numbers, for bounds b.
toSvgNum(b, lng, lat) ==
    [x |-> times(dividedBy(minus(lng, b.minLng), minus(b.maxLng, b.minLng)), NumCanvas.width),
     y |-> times(dividedBy(minus(b.maxLat, lat), minus(b.maxLat, b.minLat)), NumCanvas.height)]

fromSvgNumUnflipped(b, svgX, svgY) ==
    [lng |-> plus(times(dividedBy(svgX, NumCanvas.width), minus(b.maxLng, b.minLng)), b.minLng),
     lat |-> plus(b.minLat, times(dividedBy(svgY, NumCanvas.height), minus(b.maxLat, b.minLat)))]

\* fromSvgCoords in Numbers, for bounds b.
fromSvgNum(b, svgX, svgY) ==
    [lng |-> plus(times(dividedBy(svgX, NumCanvas.width), minus(b.maxLng, b.minLng)), b.minLng),
     lat |-> minus(b.maxLat, times(dividedBy(svgY, NumCanvas.height), minus(b.maxLat, b.minLat)))]

\* boundsRef.current after the load effect, in Numbers.
NumBounds == numBounds({c[1] : c \in AllCoords}, {c[2] : c \in AllCoords})

\* ------------------------------------------------------------------------
\* State
\* ------------------------------------------------------------------------

VARIABLES
    panelsData,       \* FALSE while the geometry is loading (null), TRUE once set
    panelStates,      \* { panelIndex: { left: state, right: state } }
    history,          \* the snapshots; history[1] is history[0] of the source
    historyIndex,     \* 0-based, as in the source
    historyRef,       \* historyRef.current
    historyIndexRef,  \* historyIndexRef.current
    isSelecting,
    selectionStart,   \* <<>> for null, <<point>> otherwise
    selectionEnd,
    isUnselectMode,
    clickedElement,   \* [tag, panelIndex]: the element of the last mouse-down
    isPanning,
    isAddingNote,     \* note mode
    notes,            \* [{ id, svgX, svgY, text }] in creation order
    isNoteSelecting,
    noteSelectionStart,
    noteSelectionEnd,
    selectedNotes,    \* the Set of ids of the selected notes
    editingNote,      \* <<>> for null, <<note>> while its editor is open
    editorText,       \* the text state of the NoteEditor (a sequence of characters)
    clock,            \* Date.now()
    lastOp,           \* what the last handler did (history variable)
    clickRun,         \* the single clicks made in a row on one end (history variable)
    undoRun,          \* the undos and redos made in a row (history variable)
    sources,          \* the state of each fetch of the load effect
    viewBox,          \* { x, y, width, height }, the visible rectangle
    viewMoves,        \* the pans and zooms made so far (history variable)
    isSubmitModalOpen,
    dailyLog,         \* the dailyLog state of useDailyLog
    storage,          \* localStorage: <<>> without the item "dailyLog", else <<its text>>
    ring,             \* a polygon given to the geometry functions on their own
    probe             \* what the geometry function applied last returned

editorVars == <<panelStates, history, historyIndex, historyRef, historyIndexRef>>
gestureVars == <<isSelecting, selectionStart, selectionEnd, isUnselectMode,
                 clickedElement, isPanning>>
noteVars == <<isAddingNote, notes, isNoteSelecting, noteSelectionStart,
              noteSelectionEnd, selectedNotes, editingNote, editorText>>
viewVars == <<viewBox, viewMoves>>
logVars == <<isSubmitModalOpen, dailyLog, storage>>
probeVars == <<ring, probe>>
vars == <<panelsData, editorVars, gestureVars, noteVars, clock, lastOp, clickRun, undoRun,
          sources, viewVars, logVars, probeVars>>

Sides == {"left", "right"}

\* Where the pointer can be, in canvas coordinates: in panel 0 near its left
\* end, the same moved by less than the threshold, and two points on the
\* background: the box from the first to the panel point covers panel 0 alone,
\* the box from the second covers both panels, the box between them covers none.
MousePoints ==
    { Pt(20050, 19950), Pt(20053, 19952), Pt(19000, 19000), Pt(19500, 21000) }

\* A pointer that visits one end of each panel: panel 0 near its left end and
\* panel 1 near its right end.
ClickPoints == { Pt(20050, 19950), Pt(20350, 20210) }

\* The pointer of the note sessions: the two points above, 3.97 canvas units
\* apart, and a background point far from both.
NotePoints == { Pt(20050, 19950), Pt(20350, 20210), Pt(19000, 19000) }

\* Every position of the pointer sets of the sessions below.
\* A pointer around the drag threshold: a press point in panel 0, a point
\* 0.04 from it both ways, one 0.05 to its right, one 0.05 below it, and a
\* background point.
ThresholdPoints ==
    { Pt(20050, 19950), Pt(20054, 19954), Pt(20055, 19950), Pt(20050, 19955),
      Pt(19000, 19000) }

PointerPositions == MousePoints \cup ClickPoints \cup NotePoints \cup ThresholdPoints

NoElement == [tag |-> "null", panelIndex |-> -1]

\* Panel: if (!coords || coords.length < 2) return null, so that nothing of
\* the feature is drawn.
rendersPolygon(coords) == Len(coords) >= 2

\* The panels whose polygon is on the canvas.
RenderedPanels == {i \in PanelIdx : rendersPolygon(PanelCoords[i])}

\* e.target of a mouse-down at a point: the polygon of the panel drawn there
\* (it carries data-panel-index), or the background rect.
elementAt(point) ==
    IF \E i \in RenderedPanels : isPointInPolygon(point, getPanelEnds(i).allPoints)
    THEN [tag |-> "polygon",
          panelIndex |-> CHOOSE i \in RenderedPanels :
                            isPointInPolygon(point, getPanelEnds(i).allPoints)]
    ELSE [tag |-> "rect", panelIndex |-> -1]

ElementTable == [point \in PointerPositions |-> elementAt(point)]

targetAt(point) == ElementTable[point]

\* ------------------------------------------------------------------------
\* Panel state machine and history
\* ------------------------------------------------------------------------

\* prev[index]?.[side] || PANEL_STATES.NONE
endState(states, index, side) ==
    IF index \in DOMAIN states /\ states[index][side] \in {MC4_INSTALLED, TERMINATED}
    THEN states[index][side]
    ELSE NONE

clickCycleSticks(currentState) ==
    IF currentState = NONE THEN MC4_INSTALLED ELSE TERMINATED

clickCycleOvershoots(currentState) ==
    IF currentState = NONE THEN MC4_INSTALLED
    ELSE IF currentState = MC4_INSTALLED THEN TERMINATED
    ELSE "done"

\* Simple click cycle: NONE -> MC4 -> TERMINATED -> NONE
clickCycle(currentState) ==
    IF currentState = NONE THEN MC4_INSTALLED
    ELSE IF currentState = MC4_INSTALLED THEN TERMINATED
    ELSE NONE

selectCycleWraps(currentState) ==
    IF currentState = NONE THEN MC4_INSTALLED
    ELSE IF currentState = MC4_INSTALLED THEN TERMINATED
    ELSE NONE

\* Box selection: NONE -> MC4 -> TERMINATED, and TERMINATED stays.
selectCycle(currentState) ==
    IF currentState = NONE THEN MC4_INSTALLED
    ELSE IF currentState = MC4_INSTALLED THEN TERMINATED
    ELSE TERMINATED

pushSnapshotKeepsTail(hist, idx, newStates) ==
    LET newHistory == Append(hist, newStates)
    IN  [panelStates |-> newStates,
         history |-> newHistory,
         historyIndex |-> Len(newHistory) - 1]

pushSnapshotInPlace(hist, idx, newStates) ==
    LET newHistory == Append(SubSeq(hist, 1, idx), newStates)
    IN  [panelStates |-> newStates,
         history |-> newHistory,
         historyIndex |-> Len(newHistory) - 1]

\* newHistory = hist.slice(0, idx + 1); newHistory.push(newStates);
\* setHistory(newHistory); setHistoryIndex(newHistory.length - 1)
pushSnapshot(hist, idx, newStates) ==
    LET newHistory == Append(SubSeq(hist, 1, idx + 1), newStates)
    IN  [panelStates |-> newStates,
         history |-> newHistory,
         historyIndex |-> Len(newHistory) - 1]

\* { ...prev, [panelIndex]: { ...prev[panelIndex], [side]: newState } }
withEnd(prev, panelIndex, side, newState) ==
    LET old == IF panelIndex \in DOMAIN prev THEN prev[panelIndex]
               ELSE [left |-> UNDEF, right |-> UNDEF]
    IN  [i \in DOMAIN prev \cup {panelIndex} |->
            IF i = panelIndex THEN [old EXCEPT ![side] = newState] ELSE prev[i]]

clickPanelNoPush(prev, hist, idx, panelIndex, side) ==
    [panelStates |-> withEnd(prev, panelIndex, side,
                             clickCycle(endState(prev, panelIndex, side))),
     history |-> hist,
     historyIndex |-> idx]

\* The setPanelStates updater of a click on a panel (handleMouseUp): it reads
\* the history through the refs.
clickPanel(prev, hist, idx, panelIndex, side) ==
    pushSnapshot(hist, idx,
        withEnd(prev, panelIndex, side, clickCycle(endState(prev, panelIndex, side))))

\* distLeft < distRight ? 'left' : 'right'; the end centres are doubled, so
\* the point is doubled too, and squared distances stand for Math.hypot. The
\* distances to the NaN centre of a polygon without points compare false.
nearerSide(panelIndex, point) ==
    LET ends == getPanelEnds(panelIndex)
        dist2(c) == (2 * point.x - c.x) * (2 * point.x - c.x)
                    + (2 * point.y - c.y) * (2 * point.y - c.y)
    IN  IF Len(ends.allPoints) = 0 THEN "right"
        ELSE IF dist2(ends.left) < dist2(ends.right) THEN "left" ELSE "right"

SideTable == [i \in PanelIdx, point \in PointerPositions |-> nearerSide(i, point)]

clickedSide(panelIndex, point) == SideTable[panelIndex, point]

isClickEitherWay(selStart, selEnd) ==
    \/ Abs(selEnd.x - selStart.x) < DragThreshold
    \/ Abs(selEnd.y - selStart.y) < DragThreshold

isClick(selStart, selEnd) ==
    /\ Abs(selEnd.x - selStart.x) < DragThreshold
    /\ Abs(selEnd.y - selStart.y) < DragThreshold

\* The panels the forEach of applySelection finds in the box, for every box
\* the pointer can draw.
SelectionTable ==
    [selStart \in PointerPositions, selEnd \in PointerPositions |->
        {i \in PanelIdx : isPanelInSelection(i, selStart, selEnd)}]

selectedPanels(selStart, selEnd) == SelectionTable[selStart, selEnd]

boxStateAlwaysAdvances(currentState, unselect) == selectCycle(currentState)

\* The state applySelection gives an end of a panel in the box: unselect
\* clears it, select advances it.
boxState(currentState, unselect) ==
    IF unselect THEN NONE ELSE selectCycle(currentState)

applySelectionAlwaysPushes(prev, hist, idx, selStart, selEnd, unselect) ==
    LET selected == selectedPanels(selStart, selEnd)
        newEnd(i, side) == boxState(endState(prev, i, side), unselect)
        newStates == [i \in DOMAIN prev \cup selected |->
                        IF i \in selected
                        THEN [left |-> newEnd(i, "left"), right |-> newEnd(i, "right")]
                        ELSE prev[i]]
    IN  IF isClick(selStart, selEnd)
        THEN [panelStates |-> prev, history |-> hist, historyIndex |-> idx]
        ELSE pushSnapshot(hist, idx, newStates)

applySelectionUniform(prev, hist, idx, selStart, selEnd, unselect) ==
    LET selected == selectedPanels(selStart, selEnd)
        newEnd(i) == boxState(endState(prev, i, "left"), unselect)
        newStates == [i \in DOMAIN prev \cup selected |->
                        IF i \in selected
                        THEN [left |-> newEnd(i), right |-> newEnd(i)]
                        ELSE prev[i]]
    IN  IF isClick(selStart, selEnd)
        THEN [panelStates |-> prev, history |-> hist, historyIndex |-> idx]
        ELSE IF selected # {}
        THEN pushSnapshot(hist, idx, newStates)
        ELSE [panelStates |-> newStates, history |-> hist, historyIndex |-> idx]

\* applySelection: it reads history and historyIndex of the current render.
applySelection(prev, hist, idx, selStart, selEnd, unselect) ==
    LET selected == selectedPanels(selStart, selEnd)
        newEnd(i, side) == boxState(endState(prev, i, side), unselect)
        newStates == [i \in DOMAIN prev \cup selected |->
                        IF i \in selected
                        THEN [left |-> newEnd(i, "left"), right |-> newEnd(i, "right")]
                        ELSE prev[i]]
    IN  IF isClick(selStart, selEnd)
        THEN [panelStates |-> prev, history |-> hist, historyIndex |-> idx]
        ELSE IF selected # {}
        THEN pushSnapshot(hist, idx, newStates)
        ELSE [panelStates |-> newStates, history |-> hist, historyIndex |-> idx]

undoUnguarded(prev, hist, idx) ==
    [panelStates |-> IF idx > 0 THEN hist[idx] ELSE prev,
     history |-> hist,
     historyIndex |-> idx - 1]

undoStopsAtOne(prev, hist, idx) ==
    IF idx > 1
    THEN [panelStates |-> hist[idx], history |-> hist, historyIndex |-> idx - 1]
    ELSE [panelStates |-> prev, history |-> hist, historyIndex |-> idx]

undoKeepsStates(prev, hist, idx) ==
    IF idx > 0
    THEN [panelStates |-> prev, history |-> hist, historyIndex |-> idx - 1]
    ELSE [panelStates |-> prev, history |-> hist, historyIndex |-> idx]

\* if (historyIndex > 0) { setHistoryIndex(historyIndex - 1);
\* setPanelStates(history[historyIndex - 1]) }
undo(prev, hist, idx) ==
    IF idx > 0
    THEN [panelStates |-> hist[idx], history |-> hist, historyIndex |-> idx - 1]
    ELSE [panelStates |-> prev, history |-> hist, historyIndex |-> idx]

redoKeepsStates(prev, hist, idx) ==
    IF idx < Len(hist) - 1
    THEN [panelStates |-> prev, history |-> hist, historyIndex |-> idx + 1]
    ELSE [panelStates |-> prev, history |-> hist, historyIndex |-> idx]

\* if (historyIndex < history.length - 1) { setHistoryIndex(historyIndex + 1);
\* setPanelStates(history[historyIndex + 1]) }
redo(prev, hist, idx) ==
    IF idx < Len(hist) - 1
    THEN [panelStates |-> hist[idx + 2], history |-> hist, historyIndex |-> idx + 1]
    ELSE [panelStates |-> prev, history |-> hist, historyIndex |-> idx]

\* ------------------------------------------------------------------------
\* Progress counters
\* ------------------------------------------------------------------------

RECURSIVE countWhere(_, _, _)
\* Object.values(panelStates).forEach with the counter++ lines: the number of
\* pairs (panel in keys, side) whose stored state is one of wanted.
countWhere(states, keys, wanted) ==
    IF keys = {} THEN 0
    ELSE LET k == CHOOSE i \in keys : TRUE
         IN  (IF states[k].left \in wanted THEN 1 ELSE 0)
             + (IF states[k].right \in wanted THEN 1 ELSE 0)
             + countWhere(states, keys \ {k}, wanted)

totalEndsPerPanel(loaded, panelCount) == IF loaded THEN panelCount ELSE 0

\* totalEnds = totalPanels * 2, with totalPanels 0 while panelsData is null.
totalEnds(loaded, panelCount) == (IF loaded THEN panelCount ELSE 0) * 2

counter(total, completed) ==
    [total |-> total, completed |-> completed, remaining |-> total - completed]

mc4OfInstalledOnly(loaded, panelCount, states) ==
    counter(totalEnds(loaded, panelCount),
            countWhere(states, DOMAIN states, {MC4_INSTALLED}))

\* The mc4 of the useMemo, for a panel count and a mapping.
mc4Of(loaded, panelCount, states) ==
    counter(totalEnds(loaded, panelCount),
            countWhere(states, DOMAIN states, {MC4_INSTALLED, TERMINATED}))

\* The termination of the useMemo.
terminationOf(loaded, panelCount, states) ==
    counter(totalEnds(loaded, panelCount),
            countWhere(states, DOMAIN states, {TERMINATED}))

mc4 == mc4Of(panelsData, Cardinality(PanelIdx), panelStates)

termination == terminationOf(panelsData, Cardinality(PanelIdx), panelStates)

\* ------------------------------------------------------------------------
\* Notes
\* ------------------------------------------------------------------------

\* The characters a note text is made of here: a blank and a letter.
Blank == " "

\* String.prototype.trim: the text without its leading and trailing blanks.
RECURSIVE trimStart(_)
trimStart(text) ==
    IF text # <<>> /\ Head(text) = Blank THEN trimStart(Tail(text)) ELSE text

RECURSIVE trimEnd(_)
trimEnd(text) ==
    IF text # <<>> /\ text[Len(text)] = Blank
    THEN trimEnd(SubSeq(text, 1, Len(text) - 1)) ELSE text

trim(text) == trimEnd(trimStart(text))

\* Squared distance from a note to a point, for Math.hypot(...) < radius.
noteDistance2(note, point) ==
    (note.svgX - point.x) * (note.svgX - point.x)
    + (note.svgY - point.y) * (note.svgY - point.y)

existingNoteExact(noteList, point) ==
    LET at == {i \in DOMAIN noteList : noteDistance2(noteList[i], point) = 0}
    IN  IF at = {} THEN 0 ELSE CHOOSE i \in at : \A j \in at : i <= j

\* notes.find(note => distance < clickRadius): the index of the first note
\* within the radius of the click, 0 when there is none.
existingNote(noteList, point) ==
    LET near == {i \in DOMAIN noteList :
                    noteDistance2(noteList[i], point) < ClickRadius * ClickRadius}
    IN  IF near = {} THEN 0 ELSE CHOOSE i \in near : \A j \in near : i <= j

\* { id: Date.now(), svgX, svgY, text: '' }
newNote(now, point) ==
    [id |-> now, svgX |-> point.x, svgY |-> point.y, text |-> <<>>]

\* The selectedIds of a drag: the ids of the notes inside the rectangle.
notesInBox(noteList, selStart, selEnd) ==
    LET minX == Min2(selStart.x, selEnd.x)
        maxX == Max2(selStart.x, selEnd.x)
        minY == Min2(selStart.y, selEnd.y)
        maxY == Max2(selStart.y, selEnd.y)
    IN  {noteList[i].id : i \in {j \in DOMAIN noteList :
            /\ noteList[j].svgX >= minX /\ noteList[j].svgX <= maxX
            /\ noteList[j].svgY >= minY /\ noteList[j].svgY <= maxY}}

updateNoteRebuilt(noteList, id, text) ==
    [i \in DOMAIN noteList |->
        IF noteList[i].id = id THEN [id |-> id, svgX |-> 0, svgY |-> 0, text |-> text]
        ELSE noteList[i]]

\* prev.map(n => n.id === id ? { ...n, text } : n)
updateNote(noteList, id, text) ==
    [i \in DOMAIN noteList |->
        IF noteList[i].id = id THEN [noteList[i] EXCEPT !.text = text]
        ELSE noteList[i]]

\* prev.filter(n => n.id !== id)
deleteNote(noteList, id) ==
    LET keep(n) == n.id # id
    IN  SelectSeq(noteList, keep)

deleteSelectedAll(noteList, selected) == <<>>

\* prev.filter(note => !selectedNotes.has(note.id))
deleteSelected(noteList, selected) ==
    LET keep(n) == n.id \notin selected
    IN  SelectSeq(noteList, keep)

savedNotesAlways(noteList, note, text) == updateNote(noteList, note.id, text)

\* handleSave of the editor: onUpdate only if text.trim() is not empty.
savedNotes(noteList, note, text) ==
    IF trim(text) # <<>> THEN updateNote(noteList, note.id, text) ELSE noteList

\* useState(note.text) of NoteEditor runs when the editor mounts; an editor
\* that is already open keeps its text when editingNote changes.
openEditorText(editing, text, note) ==
    IF editing = <<>> THEN note.text ELSE text

\* The marker drawn over a point: the last note (drawn on top) whose circle,
\* of the base radius, covers it; 0 when there is none.
markerAt(noteList, point) ==
    LET over == {i \in DOMAIN noteList :
                    noteDistance2(noteList[i], point) <= MarkerRadius * MarkerRadius}
    IN  IF over = {} THEN 0 ELSE CHOOSE i \in over : \A j \in over : i >= j

\* e.target of a mouse-down: a note marker, drawn after the panels, or what
\* lies under it.
eventTarget(noteList, point) ==
    IF markerAt(noteList, point) # 0 THEN [tag |-> "circle", panelIndex |-> -1]
    ELSE targetAt(point)

\* ------------------------------------------------------------------------
\* View box
\* ------------------------------------------------------------------------

\* svg.getBoundingClientRect(): the size of the svg on the screen, in pixels.
RectWidth == 1200
RectHeight == 900

\* setViewBox({ x: 0, y: 0, width, height }) of the load effect.
LoadedViewBox == [x |-> 0, y |-> 0, width |-> CanvasWidth, height |-> CanvasHeight]

\* A mouse-move event that reports no movement, and the pointer that only
\* ever reports such.
Still == << <<0, 0>> >>
StillSet == {Still[1]}

pannedNarrowing(prev, movement) ==
    [prev EXCEPT !.x = @ - (movement[1] * prev.width) \div RectWidth,
                 !.width = @ - (movement[2] * prev.height) \div RectHeight]

\* The updater of the panning branch of handleMouseMove:
\* dx = movementX * (viewBox.width / rect.width), x: prev.x - dx; same for y.
panned(prev, movement) ==
    [prev EXCEPT !.x = @ - (movement[1] * prev.width) \div RectWidth,
                 !.y = @ - (movement[2] * prev.height) \div RectHeight]

\* The updater of zoom and of the wheel handler: the size is scaled by
\* factor[1] / factor[2] and the canvas point under the mouse stays under it.
zoomed(prev, mouseX, mouseY, factor) ==
    LET svgX == prev.x + (mouseX * prev.width) \div RectWidth
        svgY == prev.y + (mouseY * prev.height) \div RectHeight
        newWidth == (prev.width * factor[1]) \div factor[2]
        newHeight == (prev.height * factor[1]) \div factor[2]
    IN  [x |-> svgX - (mouseX * newWidth) \div RectWidth,
         y |-> svgY - (mouseY * newHeight) \div RectHeight,
         width |-> newWidth,
         height |-> newHeight]

\* zoomIn ? 0.8 : 1.25
keyZoomFactor(zoomIn) == IF zoomIn THEN <<4, 5>> ELSE <<5, 4>>

\* e.deltaY > 0 ? 1.1 : 0.9
wheelZoomFactor(deltaY) == IF deltaY > 0 THEN <<11, 10>> ELSE <<9, 10>>

\* ------------------------------------------------------------------------
\* Daily log
\* ------------------------------------------------------------------------

\* The keys of a record of the log, in the order handleSubmit writes them.
RecordKeys == <<"date", "installed_panels", "subcontractor", "workers">>

\* JSON.stringify of the log: for each record its values in key order.
stringify(log) ==
    [valid |-> TRUE,
     entries |-> [i \in DOMAIN log |-> [k \in DOMAIN RecordKeys |-> log[i][RecordKeys[k]]]]]

\* A stored text that is no JSON.
CorruptText == [valid |-> FALSE, entries |-> <<>>]

\* JSON.parse of a stored text that is JSON.
parse(text) ==
    [i \in DOMAIN text.entries |->
        [key \in {RecordKeys[k] : k \in DOMAIN RecordKeys} |->
            text.entries[i][CHOOSE k \in DOMAIN RecordKeys : RecordKeys[k] = key]]]

\* The mount effect of useDailyLog: the stored log if there is one and it
\* parses, else the empty log.
mountedLog(stored) ==
    IF stored # <<>> /\ stored[1].valid THEN parse(stored[1]) ELSE <<>>

RECURSIVE parseInt(_, _)
\* parseInt of the digits typed into the number input: NaN (here -1) for none.
parseInt(digits, sofar) ==
    IF digits = <<>> THEN sofar
    ELSE parseInt(Tail(digits), (IF sofar < 0 THEN 0 ELSE sofar) * 10 + Head(digits))

\* parseInt(workers) || 1
workersOf(digits) ==
    IF parseInt(digits, -1) <= 0 THEN 1 ELSE parseInt(digits, -1)

recordOfWorkers(date, dailyInstalled, subcontractor, workers) ==
    [date |-> date,
     installed_panels |-> workersOf(workers),
     subcontractor |-> subcontractor,
     workers |-> workersOf(workers)]

\* The record handleSubmit builds from the form and the dailyInstalled prop.
recordOf(date, dailyInstalled, subcontractor, workers) ==
    [date |-> date,
     installed_panels |-> dailyInstalled,
     subcontractor |-> subcontractor,
     workers |-> workersOf(workers)]

addRecordFirst(log, record) ==
    [dailyLog |-> <<record>> \o log, storage |-> <<stringify(<<record>> \o log)>>]

\* addRecord: updated = [...dailyLog, record]; both the state and the stored
\* item are set from it.
addRecord(log, record) ==
    [dailyLog |-> Append(log, record), storage |-> <<stringify(Append(log, record))>>]

\* ------------------------------------------------------------------------
\* Initial state
\* ------------------------------------------------------------------------

\* useState({}): no panel touched.
EmptyStates == [i \in {} |-> [left |-> UNDEF, right |-> UNDEF]]

NoClickRun == [panelIndex |-> -1, side |-> "none", before |-> <<>>]
NoUndoRun == [undos |-> 0, redos |-> 0, base |-> <<>>]

\* lastOp: the handler that ran last, the history index it found and the
\* number of redoable snapshots (for a deletion, of notes) it discarded. lastOp and undoRun are kept
\* between gestures; while a button is held they are blank.
Op(name, at, cut) == [op |-> name, at |-> at, cut |-> cut]

InGesture == Op("gesture", 0, 0)

\* The four files the load effect fetches.
SourceNames == {"panels", "line", "invPoint", "text"}

\* useState({ x: 0, y: 0, width: 1000, height: 800 })
InitialViewBox == [x |-> 0, y |-> 0, width |-> 100000, height |-> 80000]

NoProbe == [op |-> "none"]

\* The state after the first render and its effects, for a polygon to probe
\* and for what the browser had stored: the mount effect of useDailyLog has
\* read the stored log.
InitWith(polygon, stored) ==
    /\ panelsData = FALSE
    /\ panelStates = EmptyStates
    /\ history = <<EmptyStates>>
    /\ historyIndex = 0
    /\ historyRef = <<EmptyStates>>
    /\ historyIndexRef = 0
    /\ isSelecting = FALSE
    /\ selectionStart = <<>>
    /\ selectionEnd = <<>>
    /\ isUnselectMode = FALSE
    /\ clickedElement = NoElement
    /\ isPanning = FALSE
    /\ isAddingNote = FALSE
    /\ notes = <<>>
    /\ isNoteSelecting = FALSE
    /\ noteSelectionStart = <<>>
    /\ noteSelectionEnd = <<>>
    /\ selectedNotes = {}
    /\ editingNote = <<>>
    /\ editorText = <<>>
    /\ clock = 1
    /\ lastOp = Op("init", 0, 0)
    /\ clickRun = NoClickRun
    /\ undoRun = NoUndoRun
    /\ sources = [s \in SourceNames |-> "pending"]
    /\ viewBox = InitialViewBox
    /\ viewMoves = 0
    /\ isSubmitModalOpen = FALSE
    /\ dailyLog = mountedLog(stored)
    /\ storage = stored
    /\ ring = polygon
    /\ probe = NoProbe

\* A first visit: nothing stored, no polygon to probe.
Init == InitWith(<<>>, <<>>)

\* ------------------------------------------------------------------------
\* Handlers
\* ------------------------------------------------------------------------

CommitBeforeEffect(ed) ==
    /\ panelStates' = ed.panelStates
    /\ history' = ed.history
    /\ historyIndex' = ed.historyIndex
    /\ UNCHANGED <<historyRef, historyIndexRef>>

\* The state setters of one handler followed by the render and its effect
\* historyRef.current = history; historyIndexRef.current = historyIndex.
Commit(ed) ==
    /\ panelStates' = ed.panelStates
    /\ history' = ed.history
    /\ historyIndex' = ed.historyIndex
    /\ historyRef' = ed.history
    /\ historyIndexRef' = ed.historyIndex

idle == ~isSelecting /\ ~isPanning /\ ~isNoteSelecting

\* What lastOp records of a handler outside the panel gestures.
Did(name) == IF idle THEN Op(name, 0, 0) ELSE InGesture

\* The load effect: the geometry sources resolve and the editor is rendered.
Load ==
    /\ ~panelsData
    /\ \A s \in SourceNames : sources[s] # "failed"
    /\ sources' = [s \in SourceNames |-> "resolved"]
    /\ panelsData' = TRUE
    /\ viewBox' = LoadedViewBox
    /\ lastOp' = Op("load", historyIndex, 0)
    /\ UNCHANGED <<editorVars, gestureVars, noteVars, clock, clickRun, undoRun,
                   viewMoves, logVars, probeVars>>

\* handleMouseDown; button 0 left, 1 middle, 2 right. In note mode only the
\* left button does anything.
MouseDownAt(points) ==
    /\ panelsData
    /\ \E button \in {0, 1, 2}, point \in points :
        IF isAddingNote
        THEN /\ button = 0
             /\ isNoteSelecting' = TRUE
             /\ noteSelectionStart' = <<point>>
             /\ noteSelectionEnd' = <<point>>
             /\ UNCHANGED gestureVars
        ELSE /\ IF button \in {0, 2}
                THEN /\ isSelecting' = TRUE
                     /\ selectionStart' = <<point>>
                     /\ selectionEnd' = <<point>>
                     /\ isUnselectMode' = (button = 2)
                     /\ clickedElement' = eventTarget(notes, point)
                     /\ UNCHANGED isPanning
                ELSE /\ isPanning' = TRUE
                     /\ UNCHANGED <<isSelecting, selectionStart, selectionEnd,
                                    isUnselectMode, clickedElement>>
             /\ UNCHANGED <<isNoteSelecting, noteSelectionStart, noteSelectionEnd>>
    /\ lastOp' = InGesture
    /\ undoRun' = NoUndoRun
    /\ UNCHANGED <<panelsData, editorVars, isAddingNote, notes, selectedNotes,
                   editingNote, editorText, clock, clickRun, sources, viewVars, logVars, probeVars>>

MouseDown == MouseDownAt(MousePoints)

\* handleMouseMove: the selection box follows the pointer; while panning the
\* view box moves against the pointer, by the movement since the last event
\* (clientX - panStart.x, clientY - panStart.y), in screen pixels.
MouseMoveAt(points, movements) ==
    /\ panelsData
    /\ isNoteSelecting \/ isSelecting \/ isPanning
    /\ \E point \in points, movement \in movements :
        IF isNoteSelecting
        THEN noteSelectionEnd' = <<point>> /\ UNCHANGED <<selectionEnd, viewVars>>
        ELSE IF isSelecting
        THEN selectionEnd' = <<point>> /\ UNCHANGED <<noteSelectionEnd, viewVars>>
        ELSE /\ movement = Still[1] \/ viewMoves < MaxViewMoves
             /\ viewBox' = panned(viewBox, movement)
             /\ viewMoves' = IF movement = Still[1] THEN viewMoves ELSE viewMoves + 1
             /\ UNCHANGED <<selectionEnd, noteSelectionEnd>>
    /\ UNCHANGED <<panelsData, editorVars, isSelecting, selectionStart,
                   isUnselectMode, clickedElement, isPanning, isAddingNote, notes,
                   isNoteSelecting, noteSelectionStart, selectedNotes, editingNote,
                   editorText, clock, lastOp, clickRun, undoRun, sources, logVars,
                   probeVars>>

MouseMove == MouseMoveAt(MousePoints, StillSet)

\* The branch handleMouseUp takes.
upIsNoteGesture ==
    isNoteSelecting /\ noteSelectionStart # <<>> /\ noteSelectionEnd # <<>>

upIsNoteClick ==
    upIsNoteGesture /\ isClick(noteSelectionStart[1], noteSelectionEnd[1])

upIsNoteDrag ==
    upIsNoteGesture /\ ~isClick(noteSelectionStart[1], noteSelectionEnd[1])

upIsGesture ==
    ~upIsNoteGesture /\ isSelecting /\ selectionStart # <<>> /\ selectionEnd # <<>>

upIsPanelClick ==
    /\ upIsGesture
    /\ isClick(selectionStart[1], selectionEnd[1])
    /\ clickedElement.panelIndex >= 0

upIsDrag == upIsGesture /\ ~isClick(selectionStart[1], selectionEnd[1])

\* The state an end had, and the history index, before each of the last (at
\* most three) single clicks made in a row on it.
extendRun(run, panelIndex, side, was, at) ==
    LET entry == [state |-> was, index |-> at]
        all == IF run.panelIndex = panelIndex /\ run.side = side
               THEN Append(run.before, entry) ELSE <<entry>>
    IN  [panelIndex |-> panelIndex, side |-> side,
         before |-> IF Len(all) > 3 THEN Tail(all) ELSE all]

\* The note branch of handleMouseUp: a click opens the note found within the
\* radius or adds a note; a drag selects the notes in the box.
noteMouseUp ==
    IF upIsNoteClick
    THEN \E found \in {existingNote(notes, noteSelectionStart[1])} :
            IF found # 0
            THEN /\ editingNote' = <<notes[found]>>
                 /\ editorText' = openEditorText(editingNote, editorText, notes[found])
                 /\ lastOp' = Op("noteOpen", 0, 0)
                 /\ UNCHANGED <<notes, noteSelectionStart, noteSelectionEnd, selectedNotes>>
            ELSE /\ Len(notes) < MaxNotes
                 /\ notes' = Append(notes, newNote(clock, noteSelectionStart[1]))
                 /\ noteSelectionStart' = <<>>
                 /\ noteSelectionEnd' = <<>>
                 /\ lastOp' = Op("noteAdd", 0, 0)
                 /\ UNCHANGED <<selectedNotes, editingNote, editorText>>
    ELSE /\ selectedNotes' = notesInBox(notes, noteSelectionStart[1], noteSelectionEnd[1])
         /\ lastOp' = Op("noteDrag", 0, 0)
         /\ UNCHANGED <<notes, noteSelectionStart, noteSelectionEnd, editingNote, editorText>>

\* handleMouseUp without the reset of the panel selection at its end.
handleMouseUpKeepsSelection ==
    /\ panelsData
    /\ IF upIsNoteGesture
       THEN /\ noteMouseUp
            /\ clickRun' = NoClickRun
            /\ UNCHANGED editorVars
       ELSE /\ UNCHANGED <<notes, noteSelectionStart, noteSelectionEnd, selectedNotes,
                           editingNote, editorText>>
            /\ IF upIsPanelClick
               THEN LET panelIndex == clickedElement.panelIndex
                        side == clickedSide(panelIndex, selectionStart[1])
                    IN  \E ed \in {clickPanel(panelStates, historyRef, historyIndexRef, panelIndex, side)} :
                        /\ Len(ed.history) <= MaxHistory
                        /\ Commit(ed)
                        /\ lastOp' = Op("click", historyIndex, Len(history) - 1 - historyIndex)
                        /\ clickRun' = extendRun(clickRun, panelIndex, side,
                                                 endState(panelStates, panelIndex, side), historyIndex)
               ELSE IF upIsGesture
               THEN \E ed \in {applySelection(panelStates, history, historyIndex,
                                              selectionStart[1], selectionEnd[1], isUnselectMode)} :
                        /\ Len(ed.history) <= MaxHistory
                        /\ Commit(ed)
                        /\ lastOp' = Op(IF ~upIsDrag THEN "up"
                                        ELSE IF isUnselectMode THEN "unselect" ELSE "select",
                                        historyIndex,
                                        IF ed.history # history
                                        THEN Len(history) - 1 - historyIndex ELSE 0)
                        /\ clickRun' = NoClickRun
               ELSE /\ UNCHANGED editorVars
                    /\ lastOp' = Op("up", historyIndex, 0)
                    /\ clickRun' = NoClickRun
    /\ isNoteSelecting' = FALSE
    /\ UNCHANGED <<isSelecting, selectionStart, selectionEnd>>
    /\ isUnselectMode' = FALSE
    /\ clickedElement' = NoElement
    /\ isPanning' = FALSE
    /\ undoRun' = NoUndoRun
    /\ UNCHANGED <<panelsData, isAddingNote, clock, sources, viewVars, logVars, probeVars>>

\* handleMouseUp, bound to mouse-up and to mouse-leave.
handleMouseUp ==
    /\ panelsData
    /\ IF upIsNoteGesture
       THEN /\ noteMouseUp
            /\ clickRun' = NoClickRun
            /\ UNCHANGED editorVars
       ELSE /\ UNCHANGED <<notes, noteSelectionStart, noteSelectionEnd, selectedNotes,
                           editingNote, editorText>>
            /\ IF upIsPanelClick
               THEN LET panelIndex == clickedElement.panelIndex
                        side == clickedSide(panelIndex, selectionStart[1])
                    IN  \E ed \in {clickPanel(panelStates, historyRef, historyIndexRef, panelIndex, side)} :
                        /\ Len(ed.history) <= MaxHistory
                        /\ Commit(ed)
                        /\ lastOp' = Op("click", historyIndex, Len(history) - 1 - historyIndex)
                        /\ clickRun' = extendRun(clickRun, panelIndex, side,
                                                 endState(panelStates, panelIndex, side), historyIndex)
               ELSE IF upIsGesture
               THEN \E ed \in {applySelection(panelStates, history, historyIndex,
                                              selectionStart[1], selectionEnd[1], isUnselectMode)} :
                        /\ Len(ed.history) <= MaxHistory
                        /\ Commit(ed)
                        /\ lastOp' = Op(IF ~upIsDrag THEN "up"
                                        ELSE IF isUnselectMode THEN "unselect" ELSE "select",
                                        historyIndex,
                                        IF ed.history # history
                                        THEN Len(history) - 1 - historyIndex ELSE 0)
                        /\ clickRun' = NoClickRun
               ELSE /\ UNCHANGED editorVars
                    /\ lastOp' = Op("up", historyIndex, 0)
                    /\ clickRun' = NoClickRun
    /\ isNoteSelecting' = FALSE
    /\ isSelecting' = FALSE
    /\ selectionStart' = <<>>
    /\ selectionEnd' = <<>>
    /\ isUnselectMode' = FALSE
    /\ clickedElement' = NoElement
    /\ isPanning' = FALSE
    /\ undoRun' = NoUndoRun
    /\ UNCHANGED <<panelsData, isAddingNote, clock, sources, viewVars, logVars, probeVars>>

MouseUp == handleMouseUp

MouseLeave == handleMouseUp

\* undo, from the toolbar button or Ctrl+Z (the key works at index 0 too).
Undo ==
    /\ \E ed \in {undo(panelStates, history, historyIndex)} : Commit(ed)
    /\ lastOp' = IF idle THEN Op("undo", historyIndex, 0) ELSE InGesture
    /\ clickRun' = NoClickRun
    /\ undoRun' = IF ~idle \/ historyIndex = 0 THEN NoUndoRun
                  ELSE IF undoRun.undos > 0 /\ undoRun.redos = 0
                  THEN [undoRun EXCEPT !.undos = @ + 1]
                  ELSE [undos |-> 1, redos |-> 0,
                        base |-> <<[panelStates |-> panelStates, history |-> history,
                                    historyIndex |-> historyIndex]>>]
    /\ UNCHANGED <<panelsData, gestureVars, noteVars, clock, sources, viewVars, logVars, probeVars>>

\* redo, from the toolbar button, Ctrl+Y or Ctrl+Shift+Z.
Redo ==
    /\ \E ed \in {redo(panelStates, history, historyIndex)} : Commit(ed)
    /\ lastOp' = IF idle THEN Op("redo", historyIndex, 0) ELSE InGesture
    /\ clickRun' = NoClickRun
    /\ undoRun' = IF idle /\ undoRun.undos > 0 /\ undoRun.redos < undoRun.undos
                  THEN [undoRun EXCEPT !.redos = @ + 1]
                  ELSE NoUndoRun
    /\ UNCHANGED <<panelsData, gestureVars, noteVars, clock, sources, viewVars, logVars, probeVars>>

Next ==
    \/ Load
    \/ MouseDown
    \/ MouseMove
    \/ MouseUp
    \/ MouseLeave
    \/ Undo
    \/ Redo

Spec == Init /\ [][Next]_vars

\* ------------------------------------------------------------------------
\* Note handlers
\* ------------------------------------------------------------------------

\* The texts typed into the editor: empty, one blank, one letter.
Texts == { <<>>, <<Blank>>, <<"a">> }

\* The Toggle Note Mode button.
ToggleNoteMode ==
    /\ panelsData
    /\ isAddingNote' = ~isAddingNote
    /\ selectedNotes' = {}
    /\ isNoteSelecting' = FALSE
    /\ noteSelectionStart' = <<>>
    /\ noteSelectionEnd' = <<>>
    /\ lastOp' = Did("toggle")
    /\ UNCHANGED <<panelsData, editorVars, gestureVars, notes, editingNote, editorText,
                   clock, clickRun, undoRun, sources, viewVars, logVars, probeVars>>

\* The clock of Date.now() moves on by a millisecond.
Tick ==
    /\ clock < MaxClock
    /\ clock' = clock + 1
    /\ UNCHANGED <<panelsData, editorVars, gestureVars, noteVars, lastOp, clickRun, undoRun,
                   sources, viewVars, logVars, probeVars>>

\* onClick of a note marker: setEditingNote(clickedNote).
NoteMarkerClick ==
    /\ panelsData
    /\ \E i \in DOMAIN notes :
        /\ editingNote' = <<notes[i]>>
        /\ editorText' = openEditorText(editingNote, editorText, notes[i])
    /\ lastOp' = Did("marker")
    /\ UNCHANGED <<panelsData, editorVars, gestureVars, isAddingNote, notes,
                   isNoteSelecting, noteSelectionStart, noteSelectionEnd, selectedNotes,
                   clock, clickRun, undoRun, sources, viewVars, logVars, probeVars>>

\* onChange of the editor's textarea.
EditorType ==
    /\ editingNote # <<>>
    /\ \E text \in Texts : editorText' = text
    /\ lastOp' = Did("type")
    /\ UNCHANGED <<panelsData, editorVars, gestureVars, isAddingNote, notes,
                   isNoteSelecting, noteSelectionStart, noteSelectionEnd, selectedNotes,
                   editingNote, clock, clickRun, undoRun, sources, viewVars, logVars, probeVars>>

\* handleSave, from the Save button or Enter without Shift; onClose unmounts
\* the editor.
EditorSave ==
    /\ editingNote # <<>>
    /\ notes' = savedNotes(notes, editingNote[1], editorText)
    /\ editingNote' = <<>>
    /\ editorText' = <<>>
    /\ lastOp' = Did("save")
    /\ UNCHANGED <<panelsData, editorVars, gestureVars, isAddingNote,
                   isNoteSelecting, noteSelectionStart, noteSelectionEnd, selectedNotes,
                   clock, clickRun, undoRun, sources, viewVars, logVars, probeVars>>

\* Escape or the close button: setText(note.text); onClose().
EditorCancel ==
    /\ editingNote # <<>>
    /\ editingNote' = <<>>
    /\ editorText' = <<>>
    /\ lastOp' = Did("cancel")
    /\ UNCHANGED <<panelsData, editorVars, gestureVars, isAddingNote, notes,
                   isNoteSelecting, noteSelectionStart, noteSelectionEnd, selectedNotes,
                   clock, clickRun, undoRun, sources, viewVars, logVars, probeVars>>

\* The Delete button of the editor: deleteNote(id); setEditingNote(null).
EditorDelete ==
    /\ editingNote # <<>>
    /\ notes' = deleteNote(notes, editingNote[1].id)
    /\ editingNote' = <<>>
    /\ editorText' = <<>>
    /\ lastOp' = Did("editorDelete")
    /\ UNCHANGED <<panelsData, editorVars, gestureVars, isAddingNote,
                   isNoteSelecting, noteSelectionStart, noteSelectionEnd, selectedNotes,
                   clock, clickRun, undoRun, sources, viewVars, logVars, probeVars>>

\* The Delete key, which acts in note mode only.
DeleteKey ==
    /\ isAddingNote
    /\ IF selectedNotes # {}
       THEN /\ notes' = deleteSelected(notes, selectedNotes)
            /\ selectedNotes' = {}
       ELSE UNCHANGED <<notes, selectedNotes>>
    /\ isNoteSelecting' = FALSE
    /\ noteSelectionStart' = <<>>
    /\ noteSelectionEnd' = <<>>
    /\ lastOp' = Op("deleteKey", 0, Len(notes) - Len(notes'))
    /\ UNCHANGED <<panelsData, editorVars, gestureVars, isAddingNote, editingNote,
                   editorText, clock, clickRun, undoRun, sources, viewVars, logVars, probeVars>>

\* The Delete Selected Notes button, rendered in note mode while the selection
\* is not empty.
DeleteButton ==
    /\ panelsData
    /\ isAddingNote
    /\ selectedNotes # {}
    /\ notes' = deleteSelected(notes, selectedNotes)
    /\ selectedNotes' = {}
    /\ lastOp' = IF idle THEN Op("deleteButton", 0, Len(notes) - Len(notes')) ELSE InGesture
    /\ UNCHANGED <<panelsData, editorVars, gestureVars, isAddingNote,
                   isNoteSelecting, noteSelectionStart, noteSelectionEnd, editingNote,
                   editorText, clock, clickRun, undoRun, sources, viewVars, logVars, probeVars>>

\* A session of note taking: once the geometry is loaded the pointer is
\* pressed in note mode only, on NotePoints.
NoteMouseDown == isAddingNote /\ MouseDownAt(NotePoints)

NoteMouseMove == MouseMoveAt(NotePoints, StillSet)

NoteNext ==
    \/ Load
    \/ NoteMouseDown
    \/ NoteMouseMove
    \/ MouseUp
    \/ MouseLeave
    \/ ToggleNoteMode
    \/ Tick
    \/ NoteMarkerClick
    \/ EditorType
    \/ EditorSave
    \/ EditorCancel
    \/ EditorDelete
    \/ DeleteKey
    \/ DeleteButton

NoteSpec == Init /\ [][NoteNext]_vars

\* A session of clicks on the two ends of ClickPoints.
ClickMouseDown == MouseDownAt(ClickPoints)

ClickMouseMove == MouseMoveAt(ClickPoints, StillSet)

ClickNext ==
    \/ Load
    \/ ClickMouseDown
    \/ ClickMouseMove
    \/ MouseUp
    \/ MouseLeave
    \/ Undo
    \/ Redo

ClickSpec == Init /\ [][ClickNext]_vars

\* A session of presses and releases around the drag threshold.
ThresholdMouseDown == MouseDownAt(ThresholdPoints)

ThresholdMouseMove == MouseMoveAt(ThresholdPoints, StillSet)

ThresholdNext ==
    \/ Load
    \/ ThresholdMouseDown
    \/ ThresholdMouseMove
    \/ MouseUp
    \/ MouseLeave
    \/ Undo
    \/ Redo

ThresholdSpec == Init /\ [][ThresholdNext]_vars

\* ------------------------------------------------------------------------
\* Loading, fetch by fetch
\* ------------------------------------------------------------------------

\* The pointer of the sessions with the form: in panel 0 near its left end.
LogPoints == { Pt(20050, 19950) }

LogMouseDown == MouseDownAt(LogPoints)

LogMouseMove == MouseMoveAt(LogPoints, StillSet)

anyResolved(srcs) == \E s \in SourceNames : srcs[s] = "resolved"

\* Promise.all(...).then: the callback runs once every fetch has resolved.
allResolved(srcs) == \A s \in SourceNames : srcs[s] = "resolved"

\* One fetch settles: its JSON arrives, or the fetch or r.json() rejects.
\* With the last JSON the callback of Promise.all runs; a rejection has no
\* handler.
SourceSettles ==
    /\ ~panelsData
    /\ \E s \in SourceNames, outcome \in {"resolved", "failed"} :
        /\ sources[s] = "pending"
        /\ sources' = [sources EXCEPT ![s] = outcome]
    /\ IF allResolved(sources')
       THEN /\ panelsData' = TRUE
            /\ viewBox' = LoadedViewBox
            /\ lastOp' = Op("load", historyIndex, 0)
       ELSE UNCHANGED <<panelsData, viewBox, lastOp>>
    /\ UNCHANGED <<editorVars, gestureVars, noteVars, clock, clickRun, undoRun,
                   viewMoves, logVars, probeVars>>

\* zoom(true) and zoom(false) of the keys + and -, about the middle of the
\* svg; without the svg (while loading) zoom returns at once.
ZoomKey ==
    /\ \E zoomIn \in BOOLEAN :
        IF panelsData /\ viewMoves < MaxViewMoves
        THEN /\ viewBox' = zoomed(viewBox, RectWidth \div 2, RectHeight \div 2,
                                  keyZoomFactor(zoomIn))
             /\ viewMoves' = viewMoves + 1
        ELSE /\ ~panelsData
             /\ UNCHANGED viewVars
    /\ lastOp' = Did("zoomKey")
    /\ UNCHANGED <<panelsData, editorVars, gestureVars, noteVars, clock, clickRun, undoRun,
                   sources, logVars, probeVars>>

\* A session watched from the first render: the fetches settle one by one,
\* the keys work throughout, the pointer and the toolbar once the editor is
\* rendered.
LoadNext ==
    \/ SourceSettles
    \/ LogMouseDown
    \/ LogMouseMove
    \/ MouseUp
    \/ MouseLeave
    \/ Undo
    \/ Redo
    \/ ZoomKey
    \/ ToggleNoteMode
    \/ DeleteKey

LoadSpec == Init /\ [][LoadNext]_vars

\* ------------------------------------------------------------------------
\* Daily work form
\* ------------------------------------------------------------------------

\* What is typed into the form: the date, the subcontractor (required), and
\* the digits of the number of workers.
Dates == {"2026-11-02"}
Subcontractors == {"acme"}
WorkerInputs == { <<>>, <<3>> }

\* The Submit Daily Work button of the toolbar.
OpenSubmit ==
    /\ panelsData
    /\ isSubmitModalOpen' = TRUE
    /\ lastOp' = Did("openSubmit")
    /\ UNCHANGED <<panelsData, editorVars, gestureVars, noteVars, clock, clickRun, undoRun,
                   sources, viewVars, dailyLog, storage, probeVars>>

\* onClose of the modal: its close button, Cancel, or a click on the overlay.
CloseSubmit ==
    /\ isSubmitModalOpen
    /\ isSubmitModalOpen' = FALSE
    /\ lastOp' = Did("closeSubmit")
    /\ UNCHANGED <<panelsData, editorVars, gestureVars, noteVars, clock, clickRun, undoRun,
                   sources, viewVars, dailyLog, storage, probeVars>>

\* handleSubmit of the form: onSubmit(record) is addRecord of this render, and
\* dailyInstalled is the mc4.completed of this render; then onClose().
Submit ==
    /\ isSubmitModalOpen
    /\ Len(dailyLog) < MaxLog
    /\ \E date \in Dates, subcontractor \in Subcontractors, workers \in WorkerInputs :
        \E added \in {addRecord(dailyLog,
                                recordOf(date, mc4.completed, subcontractor, workers))} :
            /\ dailyLog' = added.dailyLog
            /\ storage' = added.storage
    /\ isSubmitModalOpen' = FALSE
    /\ lastOp' = Did("submit")
    /\ UNCHANGED <<panelsData, editorVars, gestureVars, noteVars, clock, clickRun, undoRun,
                   sources, viewVars, probeVars>>

\* A record of an earlier session.
OldRecord == recordOf("2026-11-01", 5, "acme", <<2>>)

\* What the browser may hold when the editor opens: nothing, the log of an
\* earlier session, or a text that is no JSON.
StoredLogs == { <<>>, <<stringify(<<OldRecord>>)>>, <<CorruptText>> }

LogInit == \E stored \in StoredLogs : InitWith(<<>>, stored)

LogNext ==
    \/ Load
    \/ LogMouseDown
    \/ LogMouseMove
    \/ MouseUp
    \/ MouseLeave
    \/ Undo
    \/ Redo
    \/ OpenSubmit
    \/ CloseSubmit
    \/ Submit

LogSpec == LogInit /\ [][LogNext]_vars

\* ------------------------------------------------------------------------
\* The geometry functions on their own
\* ------------------------------------------------------------------------

\* Polygons to give to the functions, in the units of the loaded geometry and
\* inside its bounds: a 4 x 1 panel, a 2 x 2 square panel, a triangle with
\* sides 3, 4 and 5, each as a closed ring; a ring never closed; and features
\* of two vertices and of one.
Rings ==
    { << <<100, 601>>, <<104, 601>>, <<104, 600>>, <<100, 600>>, <<100, 601>> >>,
      << <<200, 602>>, <<202, 602>>, <<202, 600>>, <<200, 600>>, <<200, 602>> >>,
      << <<300, 600>>, <<304, 600>>, <<300, 603>>, <<300, 600>> >>,
      << <<400, 601>>, <<404, 601>>, <<404, 600>>, <<400, 600>> >>,
      << <<500, 600>>, <<503, 600>> >>,
      << <<100, 599>> >> }

GeoInit == \E polygon \in Rings : InitWith(polygon, <<>>)

\* The same closed polygon with the next vertex as the starting one.
rotated(coords) ==
    LET u == uniqueCoords(coords)
        turned == Tail(u) \o <<Head(u)>>
    IN  IF Len(u) = Len(coords) THEN turned ELSE turned \o <<Head(turned)>>

\* The file lists the polygon from its next vertex.
RotateRing ==
    /\ Len(uniqueCoords(ring)) >= 2
    /\ ring' = rotated(ring)
    /\ UNCHANGED <<panelsData, editorVars, gestureVars, noteVars, clock, lastOp, clickRun,
                   undoRun, sources, viewVars, logVars, probe>>

\* getPanelEnds for the polygon, under the bounds of the loaded geometry.
ResolveEnds ==
    /\ \E ends \in {endsOfPoints(mapToSvg(uniqueCoords(ring)))} :
        probe' = [op |-> "ends", left |-> ends.left, right |-> ends.right,
                  allPoints |-> ends.allPoints]
    /\ UNCHANGED <<panelsData, editorVars, gestureVars, noteVars, clock, lastOp, clickRun,
                   undoRun, sources, viewVars, logVars, ring>>

\* Canvas points to send to geographic coordinates and back, and geographic
\* points to send to the canvas and back: corners, the middle and points
\* between, all inside the canvas and the bounds.
CanvasProbes == {0, 1, 37, 100, 600, 1200} \X {0, 3, 450, 900}
GeoProbes == {-100, 0, 100, 104, 500, 1000} \X {-100, 0, 597, 700}

\* toSvgCoords(fromSvgCoords(x, y)) for a canvas point.
CanvasRoundTrip ==
    /\ \E point \in CanvasProbes :
        \E geo \in {fromSvgNum(NumBounds, fromInt(point[1]), fromInt(point[2]))} :
            probe' = [op |-> "canvasRoundTrip",
                      x |-> fromInt(point[1]), y |-> fromInt(point[2]),
                      lng |-> geo.lng, lat |-> geo.lat,
                      back |-> toSvgNum(NumBounds, geo.lng, geo.lat)]
    /\ UNCHANGED <<panelsData, editorVars, gestureVars, noteVars, clock, lastOp, clickRun,
                   undoRun, sources, viewVars, logVars, ring>>

\* fromSvgCoords(toSvgCoords(lng, lat)) for a geographic point.
GeoRoundTrip ==
    /\ \E point \in GeoProbes :
        \E image \in {toSvgNum(NumBounds, fromInt(point[1]), fromInt(point[2]))} :
            probe' = [op |-> "geoRoundTrip",
                      lng |-> fromInt(point[1]), lat |-> fromInt(point[2]),
                      x |-> image.x, y |-> image.y,
                      back |-> fromSvgNum(NumBounds, image.x, image.y)]
    /\ UNCHANGED <<panelsData, editorVars, gestureVars, noteVars, clock, lastOp, clickRun,
                   undoRun, sources, viewVars, logVars, ring>>

\* A geometry whose coordinates are so large that the padding is less than
\* half a unit in their last place, and the geometries a load may find.
FarRing == << <<131072, 131072>> >>
Geometries == Rings \cup {FarRing}

\* The load effect on a geometry, then toSvgCoords of each of its
\* coordinates under the bounds it computed.
ProjectRing ==
    /\ \E geometry \in Geometries :
        \E b \in {numBounds({c[1] : c \in SeqRange(geometry)}, {c[2] : c \in SeqRange(geometry)})} :
            probe' = [op |-> "project", geometry |-> geometry, bounds |-> b,
                      images |-> [i \in DOMAIN geometry |->
                                    toSvgNum(b, fromInt(geometry[i][1]),
                                             fromInt(geometry[i][2]))]]
    /\ UNCHANGED <<panelsData, editorVars, gestureVars, noteVars, clock, lastOp, clickRun,
                   undoRun, sources, viewVars, logVars, ring>>

GeoNext ==
    \/ RotateRing
    \/ ResolveEnds
    \/ CanvasRoundTrip
    \/ GeoRoundTrip
    \/ ProjectRing

GeoSpec == GeoInit /\ [][GeoNext]_vars

\* ------------------------------------------------------------------------
\* Drag rectangles over a polygon

\* Drags, each from one offset to another (in hundredths of a canvas unit)
\* from the upper left corner of the box around the polygon: away from it,
\* around it, touching its corner and its sides, a narrow one across it, and
\* small ones within it, some drawn backwards.
Drags ==
    { << <<-100, -100>>, <<-50, -50>> >>,
      << <<-100, -100>>, <<500, 400>> >>,
      << <<-100, -100>>, <<0, 0>> >>,
      << <<190, -100>>, <<210, 400>> >>,
      << <<210, 400>>, <<190, -100>> >>,
      << <<100, 25>>, <<150, 75>> >>,
      << <<150, 75>>, <<100, 25>> >>,
      << <<-100, 50>>, <<-1, 60>> >>,
      << <<0, 100>>, <<400, 100>> >>,
      << <<400, 0>>, <<500, 100>> >>,
      << <<350, -100>>, <<500, 10>> >>,
      << <<-100, 101>>, <<500, 150>> >>,
      << <<250, 200>>, <<390, 290>> >>,
      << <<-100, 10>>, <<500, 20>> >> }

\* The upper left corner of the box around the points, the origin for none.
cornerOf(pts) ==
    IF Len(pts) = 0 THEN Pt(0, 0)
    ELSE Pt(SetMin({pts[i].x : i \in DOMAIN pts}), SetMin({pts[i].y : i \in DOMAIN pts}))

\* isPanelInSelection for the polygon and a drag from selStart to selEnd.
TestSelection ==
    /\ \E drag \in Drags :
        \E pts \in {mapToSvg(uniqueCoords(ring))} :
            \E at \in {cornerOf(pts)} :
                LET selStart == Pt(at.x + drag[1][1], at.y + drag[1][2])
                    selEnd == Pt(at.x + drag[2][1], at.y + drag[2][2])
                IN  probe' = [op |-> "box", allPoints |-> pts,
                              selStart |-> selStart, selEnd |-> selEnd,
                              inside |-> polygonMeetsBox(endsOfPoints(pts).allPoints,
                                            Min2(selStart.x, selEnd.x), Max2(selStart.x, selEnd.x),
                                            Min2(selStart.y, selEnd.y), Max2(selStart.y, selEnd.y))]
    /\ UNCHANGED <<panelsData, editorVars, gestureVars, noteVars, clock, lastOp, clickRun,
                   undoRun, sources, viewVars, logVars, ring>>

BoxNext ==
    \/ RotateRing
    \/ TestSelection

BoxSpec == GeoInit /\ [][BoxNext]_vars

\* ------------------------------------------------------------------------
\* Panning and zooming

\* What a mouse-move event reports while the middle button drags, in screen
\* pixels, and where the pointer is over the svg when the wheel turns.
Movements == { <<12, 0>>, <<-30, 45>> }
WheelPositions == { <<900, 300>> }

ViewMouseDown == MouseDownAt(LogPoints)

ViewMouseMove == MouseMoveAt(LogPoints, Movements)

\* The wheel listener of the svg, attached once the panels are loaded: the
\* view box is scaled by 1.1 or 0.9 about the point under the pointer.
Wheel ==
    /\ panelsData
    /\ viewMoves < MaxViewMoves
    /\ \E deltaY \in {-100, 100}, mouse \in WheelPositions :
        viewBox' = zoomed(viewBox, mouse[1], mouse[2], wheelZoomFactor(deltaY))
    /\ viewMoves' = viewMoves + 1
    /\ lastOp' = Did("wheel")
    /\ UNCHANGED <<panelsData, editorVars, gestureVars, noteVars, clock, clickRun, undoRun,
                   sources, logVars, probeVars>>

\* A session of clicks, notes, undo and redo with the view panned and zoomed
\* in between.
ViewNext ==
    \/ Load
    \/ ViewMouseDown
    \/ ViewMouseMove
    \/ MouseUp
    \/ MouseLeave
    \/ Undo
    \/ Redo
    \/ ZoomKey
    \/ Wheel
    \/ ToggleNoteMode

ViewSpec == Init /\ [][ViewNext]_vars

\* ------------------------------------------------------------------------
\* Notes and panels in one session

\* A pointer that visits the left end of panel 0 and a background point, so
\* that a drag between them is a box over the panel and over a note on it.
MixedPoints == { Pt(20050, 19950), Pt(19000, 19000) }

MixedMouseDown == MouseDownAt(MixedPoints)

MixedMouseMove == MouseMoveAt(MixedPoints, StillSet)

\* handleMouseUp while the session is short: at most MixedHistory snapshots
\* and MixedNotes notes.
MixedMouseUp ==
    /\ handleMouseUp
    /\ Len(history') <= MixedHistory
    /\ Len(notes') <= MixedNotes

\* A session that works on the panels and on the notes in turn.
MixedNext ==
    \/ Load
    \/ MixedMouseDown
    \/ MixedMouseMove
    \/ MixedMouseUp
    \/ Undo
    \/ Redo
    \/ ToggleNoteMode
    \/ EditorType
    \/ EditorSave
    \/ EditorDelete
    \/ DeleteKey

MixedSpec == Init /\ [][MixedNext]_vars

\* ------------------------------------------------------------------------
\* Properties
\* ------------------------------------------------------------------------

Ends == PanelIdx \X Sides

\* The three-state cycle as the specification words it.
CycleStep(s) ==
    CASE s = NONE -> MC4_INSTALLED
      [] s = MC4_INSTALLED -> TERMINATED
      [] s = TERMINATED -> NONE

\* The advance of a select drag: Terminated is where it stops.
SelectStep(s) ==
    CASE s = NONE -> MC4_INSTALLED
      [] s = MC4_INSTALLED -> TERMINATED
      [] s = TERMINATED -> TERMINATED

\* The step is a mouse-up (or mouse-leave) that ends a press.
Release == isSelecting /\ ~isSelecting'

\* The end a click at the press point lands on.
ClickedEnd == <<clickedElement.panelIndex,
                clickedSide(clickedElement.panelIndex, selectionStart[1])>>

BoxPanels == selectedPanels(selectionStart[1], selectionEnd[1])

\* The step appends exactly one snapshot, the new mapping, after the current one.
AppendsOne ==
    /\ history' = Append(SubSeq(history, 1, historyIndex + 1), panelStates')
    /\ historyIndex' = historyIndex + 1

Editor == [panelStates |-> panelStates, history |-> history, historyIndex |-> historyIndex]

\* C1: a single left click on a panel end moves that end one step along
\* None -> Mc4Installed -> Terminated -> None and leaves every other end as it
\* was; three single clicks in a row on one end bring it back to its state
\* before the first.
C1_ClickCycle ==
    /\ [][(Release /\ upIsPanelClick /\ ~isUnselectMode) =>
            /\ endState(panelStates', ClickedEnd[1], ClickedEnd[2])
                 = CycleStep(endState(panelStates, ClickedEnd[1], ClickedEnd[2]))
            /\ \A e \in Ends \ {ClickedEnd} :
                 endState(panelStates', e[1], e[2]) = endState(panelStates, e[1], e[2])]_vars
    /\ [](Len(clickRun.before) = 3 =>
            endState(panelStates, clickRun.panelIndex, clickRun.side)
              = clickRun.before[1].state)

\* Three clicks in a row on one end have been made, and the end is back.
C1_Witness ==
    /\ Len(clickRun.before) = 3
    /\ clickRun.before[2].state = MC4_INSTALLED
    /\ clickRun.before[3].state = TERMINATED
    /\ endState(panelStates, clickRun.panelIndex, clickRun.side) = NONE

\* C2: a double click on a panel end (two clicks in a row on it) leaves that
\* end Terminated, whatever its state was before.
C2_DoubleClickTerminates ==
    (lastOp.op = "click" /\ Len(clickRun.before) >= 2) =>
        endState(panelStates, clickRun.panelIndex, clickRun.side) = TERMINATED

\* C3 as stated: a select drag moves both ends of every panel in the box one
\* step along the click cycle, Terminated -> None included, and leaves the
\* panels outside the box as they were.
C3_SelectFollowsClickCycle ==
    [][(Release /\ upIsDrag /\ ~isUnselectMode) =>
         /\ \A i \in BoxPanels : \A side \in Sides :
              endState(panelStates', i, side) = CycleStep(endState(panelStates, i, side))
         /\ \A i \in PanelIdx \ BoxPanels : \A side \in Sides :
              endState(panelStates', i, side) = endState(panelStates, i, side)]_vars

\* C3: a select drag moves both ends of every panel in the box one step along
\* None -> Mc4Installed -> Terminated, an end already Terminated stays
\* Terminated, and the panels outside the box are left as they were.
C3_SelectAdvances ==
    [][(Release /\ upIsDrag /\ ~isUnselectMode) =>
         /\ \A i \in BoxPanels : \A side \in Sides :
              endState(panelStates', i, side) = SelectStep(endState(panelStates, i, side))
         /\ \A i \in PanelIdx \ BoxPanels : \A side \in Sides :
              endState(panelStates', i, side) = endState(panelStates, i, side)]_vars

\* A select drag has just pushed a snapshot in which an end that was
\* Terminated is Terminated still.
C3_Witness ==
    /\ lastOp.op = "select"
    /\ historyIndex = lastOp.at + 1
    /\ \E e \in Ends :
         /\ endState(history[historyIndex], e[1], e[2]) = TERMINATED
         /\ endState(panelStates, e[1], e[2]) = TERMINATED
         /\ \E f \in Ends : endState(history[historyIndex], f[1], f[2])
                              # endState(panelStates, f[1], f[2])

\* C4: an unselect drag sets both ends of every panel in the box to None and
\* leaves the panels outside the box as they were.
C4_UnselectClears ==
    [][(Release /\ upIsDrag /\ isUnselectMode) =>
         /\ \A i \in BoxPanels : \A side \in Sides :
              endState(panelStates', i, side) = NONE
         /\ \A i \in PanelIdx \ BoxPanels : \A side \in Sides :
              endState(panelStates', i, side) = endState(panelStates, i, side)]_vars

\* An unselect drag has just cleared a panel that had an end set, while a
\* panel outside the box keeps its ends.
C4_Witness ==
    /\ lastOp.op = "unselect"
    /\ historyIndex = lastOp.at + 1
    /\ \E i \in PanelIdx :
         /\ endState(history[historyIndex], i, "left") # NONE
         /\ endState(panelStates, i, "left") = NONE
         /\ endState(panelStates, i, "right") = NONE
    /\ \E j \in PanelIdx : endState(panelStates, j, "left") # NONE

\* A gesture that changes the mapping: a click on a panel end, or a box drag
\* with at least one panel in the box.
ChangingGesture ==
    Release /\ (upIsPanelClick \/ (upIsDrag /\ BoxPanels # {}))

\* The step is an undo or a redo that moved the index.
HistoryMove ==
    /\ history' = history
    /\ historyIndex' \in {historyIndex - 1, historyIndex + 1}

\* Every single click and every box drag over at least one panel appends
\* exactly one snapshot, however many panels it changed, and no step changes
\* the mapping without appending one, undo and redo apart.
OneSnapshotPerGesture ==
    [][/\ ChangingGesture => AppendsOne
       /\ (panelStates' # panelStates) => (AppendsOne \/ HistoryMove)]_vars

\* C5: every gesture that changes panel state appends exactly one snapshot,
\* a double click (two clicks in a row on one end) being one gesture, and none
\* changes the mapping without appending one.
C5_OneSnapshotPerDoubleClick ==
    /\ OneSnapshotPerGesture
    /\ []((lastOp.op = "click" /\ Len(clickRun.before) >= 2) =>
            historyIndex = clickRun.before[Len(clickRun.before) - 1].index + 1)

\* C6: the history is never empty and the index always points at one of its
\* snapshots: 0 <= historyIndex <= length - 1.
C6_IndexInRange ==
    /\ Len(history) >= 1
    /\ historyIndex >= 0
    /\ historyIndex <= Len(history) - 1

\* An undo has been asked for at the baseline, with snapshots to redo.
C6_Witness ==
    /\ lastOp = Op("undo", 0, 0)
    /\ historyIndex = 0
    /\ Len(history) = MaxHistory

\* C7: a gesture that changes the mapping while the index is below the last
\* snapshot drops the snapshots above the index before it appends, so the new
\* snapshot is the last one, and a redo right after it changes nothing.
C7_PushDiscardsRedo ==
    /\ [][(ChangingGesture /\ historyIndex < Len(history) - 1) =>
            /\ history' = Append(SubSeq(history, 1, historyIndex + 1), panelStates')
            /\ historyIndex' = Len(history') - 1
            /\ redo(panelStates', history', historyIndex')
                 = [panelStates |-> panelStates', history |-> history',
                    historyIndex |-> historyIndex']]_vars
    /\ [][(lastOp.op \in {"click", "select", "unselect"} /\ lastOp.cut >= 1
           /\ lastOp'.op = "redo") => UNCHANGED editorVars]_vars

\* A click has just been made two snapshots below the last one.
C7_Witness ==
    /\ lastOp.op = "click"
    /\ lastOp.cut = 2
    /\ historyIndex = lastOp.at + 1
    /\ Len(history) = historyIndex + 1

RECURSIVE undoTimes(_, _)
undoTimes(ed, k) ==
    IF k = 0 THEN ed
    ELSE undoTimes(undo(ed.panelStates, ed.history, ed.historyIndex), k - 1)

RECURSIVE redoTimes(_, _)
redoTimes(ed, k) ==
    IF k = 0 THEN ed
    ELSE redoTimes(redo(ed.panelStates, ed.history, ed.historyIndex), k - 1)

\* C8: k undos followed by k redos, k at most the index, restore the mapping,
\* the index and the history they started from.
C8_UndoRedoRoundTrip ==
    /\ (undoRun.undos >= 1 /\ undoRun.redos = undoRun.undos) => Editor = undoRun.base[1]
    /\ \A k \in 1..historyIndex : redoTimes(undoTimes(Editor, k), k) = Editor

\* Two undos and then two redos have been made in a row.
C8_Witness ==
    /\ undoRun.undos = 2
    /\ undoRun.redos = 2
    /\ undoRun.base[1].panelStates # history[historyIndex]

\* C9: undo at index 0 and redo at the last index change nothing; otherwise
\* undo lowers and redo raises the index by one and the mapping becomes the
\* snapshot at the new index, the history itself untouched.
C9_UndoRedoStep ==
    /\ [][lastOp'.op = "undo" =>
            IF historyIndex = 0 THEN UNCHANGED editorVars
            ELSE /\ historyIndex' = historyIndex - 1
                 /\ history' = history
                 /\ panelStates' = history[historyIndex' + 1]]_vars
    /\ [][lastOp'.op = "redo" =>
            IF historyIndex = Len(history) - 1 THEN UNCHANGED editorVars
            ELSE /\ historyIndex' = historyIndex + 1
                 /\ history' = history
                 /\ panelStates' = history[historyIndex' + 1]]_vars
    /\ [][(historyIndex' # historyIndex /\ history' = history) =>
            /\ historyIndex' \in {historyIndex - 1, historyIndex + 1}
            /\ panelStates' = history[historyIndex' + 1]]_vars

\* A redo has been asked for at the last index, after snapshots were made.
C9_Witness ==
    /\ lastOp.op = "redo"
    /\ lastOp.at = Len(history) - 1
    /\ historyIndex = Len(history) - 1
    /\ Len(history) >= 2

\* C10: the history starts as the one empty snapshot at index 0; its first
\* snapshot is always the empty mapping; the index never goes below 0, and at
\* index 0 every end is None.
C10_Baseline ==
    /\ history[1] = EmptyStates
    /\ historyIndex >= 0
    /\ ~panelsData => (history = <<EmptyStates>> /\ historyIndex = 0)
    /\ historyIndex = 0 => \A e \in Ends : endState(panelStates, e[1], e[2]) = NONE

\* Undo has been repeated down to the baseline, and once more.
C10_Witness ==
    /\ undoRun = NoUndoRun
    /\ lastOp = Op("undo", 0, 0)
    /\ Len(history) >= 3
    /\ historyIndex = 0
    /\ \E e \in Ends : endState(history[2], e[1], e[2]) # NONE

\* C11: between handlers the mapping equals the snapshot at the history index,
\* an absent panel or end counting as None: no click, box selection, undo or
\* redo updates the one without the other.
C11_MappingIsCurrentSnapshot ==
    /\ historyIndex + 1 \in DOMAIN history
    /\ \A e \in Ends :
         endState(panelStates, e[1], e[2]) = endState(history[historyIndex + 1], e[1], e[2])

\* An undo has moved the index into the middle of a history of three or more
\* snapshots, to a mapping with an end set.
C11_Witness ==
    /\ lastOp.op = "undo"
    /\ historyIndex >= 1
    /\ historyIndex < Len(history) - 1
    /\ \E e \in Ends : endState(panelStates, e[1], e[2]) # NONE
    /\ \E e \in Ends : endState(panelStates, e[1], e[2])
                         # endState(history[historyIndex + 2], e[1], e[2])

\* The panels of the loaded geometry: none while it is loading.
panelCount == IF panelsData THEN Cardinality(PanelIdx) ELSE 0

\* C12: whatever was clicked, selected, undone or redone, for the mc4 counter
\* and for the termination counter completed + remaining = total = 2 x
\* panelCount; three panels and no clicks give mc4 = {6, 0, 6}.
C12_CounterIdentity ==
    /\ mc4.completed + mc4.remaining = mc4.total
    /\ mc4.total = 2 * panelCount
    /\ termination.completed + termination.remaining = termination.total
    /\ termination.total = 2 * panelCount
    /\ mc4Of(TRUE, 3, EmptyStates) = [total |-> 6, completed |-> 0, remaining |-> 6]

\* A select drag over both drawn panels has been undone and redone: each of
\* their ends has its connector and none is terminated.
C12_Witness ==
    /\ lastOp.op = "redo"
    /\ mc4 = [total |-> 6, completed |-> 4, remaining |-> 2]
    /\ termination = [total |-> 6, completed |-> 0, remaining |-> 6]

\* The ends whose state is one of wanted.
EndsIn(wanted) == {e \in Ends : endState(panelStates, e[1], e[2]) \in wanted}

\* From the fresh editor: one click on the left end of panel 0, then two
\* clicks in a row on the right end of panel 1.
ClickThenDoubleClick ==
    /\ Len(history) = 4
    /\ historyIndex = 3
    /\ \A e \in Ends : endState(history[2], e[1], e[2])
                         = IF e = <<0, "left">> THEN MC4_INSTALLED ELSE NONE
    /\ lastOp.op = "click"
    /\ clickRun.panelIndex = 1
    /\ clickRun.side = "right"
    /\ Len(clickRun.before) = 2
    /\ clickRun.before[1] = [state |-> NONE, index |-> 1]
    /\ clickRun.before[2].index = 2

\* C13: mc4.completed is the number of ends that are Mc4Installed or
\* Terminated, termination.completed the number that are Terminated, so the
\* second is at most the first; a click on the left end of panel 0 and then a
\* double click on the right end of panel 1 give 2 and 1.
C13_CountersCountEnds ==
    /\ mc4.completed = Cardinality(EndsIn({MC4_INSTALLED, TERMINATED}))
    /\ termination.completed = Cardinality(EndsIn({TERMINATED}))
    /\ termination.completed <= mc4.completed
    /\ ClickThenDoubleClick => (mc4.completed = 2 /\ termination.completed = 1)

\* The click and the double click have been made.
C13_Witness ==
    /\ ClickThenDoubleClick
    /\ endState(panelStates, 0, "left") = MC4_INSTALLED
    /\ endState(panelStates, 1, "right") = TERMINATED
    /\ mc4.completed = 2
    /\ termination.completed = 1

\* The value a mapping stores for an end is a panel state, or nothing.
StoredStates == PANEL_STATES \cup {UNDEF}

WellFormed(states) ==
    /\ DOMAIN states \subseteq PanelIdx
    /\ panelsData \/ DOMAIN states = {}
    /\ \A i \in DOMAIN states : \A side \in Sides : states[i][side] \in StoredStates

\* C14: in the mapping and in every snapshot of the history each end is None,
\* Mc4Installed or Terminated (nothing stored counting as None), and every key
\* is the index of a loaded panel.
C14_StatesWellFormed ==
    /\ WellFormed(panelStates)
    /\ \A k \in DOMAIN history : WellFormed(history[k])

\* Three clicks on one end: the snapshots hold Mc4Installed, Terminated and a
\* stored None, beside an end never written.
C14_Witness ==
    /\ Len(history) = 4
    /\ 0 \in DOMAIN panelStates
    /\ panelStates[0].left = NONE
    /\ panelStates[0].right = UNDEF
    /\ history[2][0].left = MC4_INSTALLED
    /\ history[3][0].left = TERMINATED

\* C15: at most one of panning, panel box selection and note box selection is
\* active; a mouse-down while one is active starts no second one.
C15_OneModeAtATime ==
    /\ ~(isPanning /\ isSelecting)
    /\ ~(isPanning /\ isNoteSelecting)
    /\ ~(isSelecting /\ isNoteSelecting)

\* A note lies within the click radius of a point.
Within(note, point) ==
    (note.svgX - point.x) * (note.svgX - point.x)
      + (note.svgY - point.y) * (note.svgY - point.y) < ClickRadius * ClickRadius

\* C16: in note mode a click that is no drag adds exactly one note, at the
\* click's canvas coordinate and with empty text, unless a note lies within
\* the radius of the click: then the notes are left as they are and the
\* editor of such a note opens.
C16_NoteClick ==
    [][(handleMouseUp /\ isAddingNote /\ upIsNoteClick) =>
         LET at == noteSelectionStart[1]
         IN  IF \E i \in DOMAIN notes : Within(notes[i], at)
             THEN /\ notes' = notes
                  /\ editingNote' # <<>>
                  /\ \E i \in DOMAIN notes :
                       Within(notes[i], at) /\ editingNote'[1] = notes[i]
             ELSE /\ Len(notes') = Len(notes) + 1
                  /\ SubSeq(notes', 1, Len(notes)) = notes
                  /\ notes'[Len(notes')].svgX = at.x
                  /\ notes'[Len(notes')].svgY = at.y
                  /\ notes'[Len(notes')].text = <<>>]_vars

\* With two notes far apart, a click near the first, not on it, has opened
\* its editor.
C16_Witness ==
    /\ lastOp.op = "noteOpen"
    /\ Len(notes) = 2
    /\ noteSelectionStart # <<>>
    /\ editingNote # <<>>
    /\ editingNote[1] = notes[1]
    /\ editingNote[1].svgX # noteSelectionStart[1].x

\* C17: the notes have pairwise different ids, and a note created later has
\* a greater id than every note created before it (the collection is kept in
\* creation order).
C17_IdsIncrease ==
    \A i, j \in DOMAIN notes : i < j => notes[i].id < notes[j].id

\* A text with a character that is no blank.
NonBlank(text) == \E i \in DOMAIN text : text[i] # Blank

\* The editor closes and the notes it is editing take the text given.
ClosesWithText(text) ==
    /\ editingNote' = <<>>
    /\ Len(notes') = Len(notes)
    /\ \A i \in DOMAIN notes :
         notes'[i] = IF notes[i].id = editingNote[1].id
                     THEN [notes[i] EXCEPT !.text = text] ELSE notes[i]

\* Cancel or Escape closes the editor and leaves the notes as they are.
CancelDiscards == [][EditorCancel => (editingNote' = <<>> /\ notes' = notes)]_vars

\* C18 as stated: a save sets the stored text to the editor's text, whatever
\* that text is, and closes the editor; cancel or Escape closes it and leaves
\* the stored text.
C18_SaveStoresAnyText ==
    /\ [][EditorSave => ClosesWithText(editorText)]_vars
    /\ CancelDiscards

\* C18: a save of a text that is not blank sets the stored text to it, a save
\* of an empty or blank text leaves the stored text; both close the editor;
\* cancel or Escape closes it and leaves the stored text.
C18_SaveStoresNonBlankText ==
    /\ [][EditorSave =>
            /\ NonBlank(editorText) => ClosesWithText(editorText)
            /\ ~NonBlank(editorText) => (editingNote' = <<>> /\ notes' = notes)]_vars
    /\ CancelDiscards

\* A save has just stored a text in a note that was created empty.
C18_Witness ==
    /\ lastOp.op = "save"
    /\ editingNote = <<>>
    /\ \E i \in DOMAIN notes : notes[i].text = <<"a">>

\* The notes that are not selected, in the order of the collection.
Unselected == {i \in DOMAIN notes : notes[i].id \notin selectedNotes}

\* C19: with a note selected, the Delete key and the delete button remove the
\* selected notes, keep every other note with its text and position, and
\* leave the selection empty; a selection exists in note mode only.
C19_DeleteSelected ==
    /\ [][((DeleteKey \/ DeleteButton) /\ selectedNotes # {}) =>
            /\ Len(notes') = Cardinality(Unselected)
            /\ \A i \in Unselected :
                 notes'[Cardinality({j \in Unselected : j <= i})] = notes[i]
            /\ selectedNotes' = {}]_vars
    /\ [](selectedNotes # {} => isAddingNote)

\* The Delete key has removed one of two notes.
C19_Witness ==
    /\ lastOp.op = "deleteKey"
    /\ lastOp.cut = 1
    /\ Len(notes) = 1
    /\ selectedNotes = {}

\* A note lies in the rectangle spanned by two points, bounds included.
InBox(note, a, b) ==
    /\ note.svgX >= Min2(a.x, b.x) /\ note.svgX <= Max2(a.x, b.x)
    /\ note.svgY >= Min2(a.y, b.y) /\ note.svgY <= Max2(a.y, b.y)

\* C20: a drag in note mode makes the selected notes exactly the notes whose
\* position lies in the drag rectangle, bounds included, whatever was selected
\* before; it adds and removes no note and changes no panel end.
C20_DragSelectsNotesInBox ==
    [][(handleMouseUp /\ isAddingNote /\ upIsNoteDrag) =>
         /\ \A i \in DOMAIN notes :
              (notes[i].id \in selectedNotes')
                <=> InBox(notes[i], noteSelectionStart[1], noteSelectionEnd[1])
         /\ notes' = notes
         /\ UNCHANGED <<panelStates, history, historyIndex>>]_vars

\* The features with too few vertices to be a polygon.
Malformed == {i \in PanelIdx : Len(PanelCoords[i]) < 2}

\* A malformed panel is not drawn and no mapping holds a state for it.
MalformedUntouched ==
    /\ \A i \in Malformed : ~rendersPolygon(PanelCoords[i])
    /\ DOMAIN panelStates \cap Malformed = {}
    /\ \A k \in DOMAIN history : DOMAIN history[k] \cap Malformed = {}

\* The ends of the well-formed panels of the loaded geometry.
wellFormedEnds == IF panelsData THEN 2 * Cardinality(PanelIdx \ Malformed) ELSE 0

\* C21: a panel whose polygon has fewer than 2 vertices renders nothing, is
\* selected by no box drag (no state is ever stored for it), and adds nothing
\* to the totals or the completed counts of the two counters.
C21_MalformedSkipped ==
    /\ MalformedUntouched
    /\ mc4.completed = countWhere(panelStates, DOMAIN panelStates \ Malformed,
                                  {MC4_INSTALLED, TERMINATED})
    /\ termination.completed = countWhere(panelStates, DOMAIN panelStates \ Malformed,
                                          {TERMINATED})
    /\ mc4.total = wellFormedEnds
    /\ termination.total = wellFormedEnds

\* The part of C21 that the editor keeps: the malformed panel is never drawn,
\* selected or counted as completed.
C21_MalformedNeverSelected ==
    /\ MalformedUntouched
    /\ mc4.completed = countWhere(panelStates, DOMAIN panelStates \ Malformed,
                                  {MC4_INSTALLED, TERMINATED})
    /\ mc4.total = wellFormedEnds + 2 * (IF panelsData THEN Cardinality(Malformed) ELSE 0)

\* A select drag whose box holds the vertex of the malformed panel has
\* advanced both drawn panels.
C21_BoxOverMalformed ==
    /\ lastOp.op = "select"
    /\ Malformed # {}
    /\ DOMAIN panelStates = PanelIdx \ Malformed
    /\ mc4.completed = 4
\* The log has grown by one record, placed last, the records before it kept.
AppendsRecord ==
    /\ Len(dailyLog') = Len(dailyLog) + 1
    /\ SubSeq(dailyLog', 1, Len(dailyLog)) = dailyLog

\* C22: each submission of the daily-work form calls addRecord exactly once,
\* with a record whose installed_panels is the number of ends that are
\* Mc4Installed or Terminated in the mapping of the moment of submission, also
\* after an undo or a redo; nothing else adds a record.
C22_SubmitRecordsCompleted ==
    [][(Submit \/ dailyLog' # dailyLog) =>
            /\ isSubmitModalOpen
            /\ AppendsRecord
            /\ dailyLog'[Len(dailyLog')].installed_panels
                    = Cardinality(EndsIn({MC4_INSTALLED, TERMINATED}))
            /\ dailyLog'[Len(dailyLog')].installed_panels = mc4.completed]_vars

\* A click was submitted with one end installed, then undone, and the form
\* was submitted again, with none.
C22_Witness ==
    /\ lastOp.op = "submit"
    /\ undoRun.undos = 1
    /\ Len(dailyLog) >= 2
    /\ dailyLog[Len(dailyLog) - 1].installed_panels = 1
    /\ dailyLog[Len(dailyLog)].installed_panels = 0
    /\ mc4.completed = 0

\* C23: the daily log is append-only: a step leaves the log and its stored
\* copy as they are, or it is an addRecord that lengthens the log by one
\* record placed last, keeps the earlier records unchanged and in order, and
\* leaves a stored copy that reads back as the log in memory; no click,
\* undo, redo or other editor operation removes or alters a record.
C23_AppendOnly ==
    [][\/ dailyLog' = dailyLog /\ storage' = storage
       \/ /\ AppendsRecord
          /\ storage' # <<>>
          /\ storage'[1].valid
          /\ parse(storage'[1]) = dailyLog'
          /\ mountedLog(storage') = dailyLog']_vars

\* The log of an earlier session has been read and a record added after its
\* record, with one end installed.
C23_Witness ==
    /\ lastOp.op = "submit"
    /\ Len(dailyLog) = 2
    /\ dailyLog[1] = OldRecord
    /\ dailyLog[2].installed_panels = 1
    /\ storage = <<stringify(dailyLog)>>
\* While the editor shows the loading placeholder nothing has been edited.
Untouched ==
    /\ panelStates = EmptyStates
    /\ history = <<EmptyStates>>
    /\ historyIndex = 0
    /\ notes = <<>>
    /\ selectedNotes = {}
    /\ ~isAddingNote
    /\ idle

SomeFailed == \E s \in SourceNames : sources[s] = "failed"

\* C24: until every geometry source has resolved the editor shows only the
\* loading placeholder and no panel state, history or note is changed; once a
\* source has failed to fetch or parse the editor stays in the loading state
\* for ever.
C24_LoadingGate ==
    /\ [](panelsData => allResolved(sources))
    /\ [](~panelsData => Untouched)
    /\ [](SomeFailed => ~panelsData)
    /\ [][SomeFailed => SomeFailed' /\ ~panelsData']_vars

\* Three sources have resolved and the fourth has failed; Ctrl+Z has been
\* pressed on the placeholder.
C24_Witness ==
    /\ Cardinality({s \in SourceNames : sources[s] = "resolved"}) = 3
    /\ SomeFailed
    /\ ~panelsData
    /\ lastOp.op = "undo"

\* The fourth source has resolved and the editor has been used.
C24_WitnessLoaded ==
    /\ allResolved(sources)
    /\ panelsData
    /\ panelStates # EmptyStates
\* The edges of the polygon that was resolved.
ResolvedEdges == panelEdges(probe'.allPoints)

\* The two ends are the centres of two edges that no other edge is shorter
\* than, the left one first by (x, y) of the centre.
TwoShortestInOrder ==
    \E i, j \in DOMAIN ResolvedEdges :
        /\ i # j
        /\ \A k \in DOMAIN ResolvedEdges \ {i, j} :
              /\ ResolvedEdges[i].len2 <= ResolvedEdges[k].len2
              /\ ResolvedEdges[j].len2 <= ResolvedEdges[k].len2
        /\ probe'.left = ResolvedEdges[i].center2
        /\ probe'.right = ResolvedEdges[j].center2
        /\ ~ByCenter(ResolvedEdges[j], ResolvedEdges[i])

\* C25: for every panel polygon the end resolver returns two ends, taken from
\* the two shortest edges, the left one having the smaller edge-centre x
\* (smaller y on a tie), and it returns the same left and right whichever
\* vertex of the closed polygon the list starts from, also when several edges
\* have the same length.
C25_EndsStableUnderRotation ==
    [][(probe'.op = "ends" /\ Len(probe'.allPoints) >= 3) =>
            /\ TwoShortestInOrder
            /\ probe.op = "ends" =>
                  (probe'.left = probe.left /\ probe'.right = probe.right)]_vars

\* The part of C25 that holds: the two ends are the centres of two shortest
\* edges in order, and they are the same from every starting vertex when the
\* second and the third shortest edge differ in length.
C25_EndsStableWithoutTie ==
    [][(probe'.op = "ends" /\ Len(probe'.allPoints) >= 3) =>
            /\ TwoShortestInOrder
            /\ (/\ probe.op = "ends"
                /\ LET byLength == StableSort(ResolvedEdges, "ByLength")
                   IN  byLength[2].len2 < byLength[3].len2) =>
                  (probe'.left = probe.left /\ probe'.right = probe.right)]_vars

\* The ends of the 4 x 1 panel have been resolved from a second starting
\* vertex.
C25_RotatedPanel ==
    /\ probe.op = "ends"
    /\ ring = << <<104, 601>>, <<104, 600>>, <<100, 600>>, <<100, 601>>, <<104, 601>> >>
    /\ probe.left = Pt(2 * 20000, 19900 + 20000)
\* a < b, a = b and |a - b| <= c * 2^(-MantissaBits) for finite Numbers, by
\* the exact value of the significands brought to one exponent.
aligned(a, b) == a.m * pow2(a.e - Min2(a.e, b.e))

NumLess(a, b) == aligned(a, b) < aligned(b, a)

NumDistance(a, b) == [m |-> Abs(aligned(a, b) - aligned(b, a)), e |-> Min2(a.e, b.e)]

\* d <= units * size * 2^(-MantissaBits): within so many units in the last
\* place of a Number of the magnitude of size.
WithinUlps(d, units, size) ==
    IF d.e + MantissaBits >= 0
    THEN d.m * pow2(d.e + MantissaBits) <= units * size
    ELSE d.m <= units * size * pow2(-(d.e + MantissaBits))

\* Both round trips give back the point, each coordinate within units units
\* in the last place of a Number of the size of the canvas or of the bounds.
RoundTripWithin(units) ==
    /\ probe.op = "canvasRoundTrip" =>
          /\ isFinite(probe.back.x) /\ isFinite(probe.back.y)
          /\ WithinUlps(NumDistance(probe.back.x, probe.x), units, CanvasWidth \div 100)
          /\ WithinUlps(NumDistance(probe.back.y, probe.y), units, CanvasHeight \div 100)
    /\ probe.op = "geoRoundTrip" =>
          /\ isFinite(probe.back.lng) /\ isFinite(probe.back.lat)
          /\ WithinUlps(NumDistance(probe.back.lng, probe.lng), units,
                        Bounds.maxLng - Bounds.minLng)
          /\ WithinUlps(NumDistance(probe.back.lat, probe.lat), units,
                        Bounds.maxLat - Bounds.minLat)

\* Of two geographic points sent to the canvas one after the other, the one
\* further east has the larger x and the one further north the smaller y.
GrowsEastAndSouth ==
    (probe.op = "geoRoundTrip" /\ probe'.op = "geoRoundTrip") =>
        /\ NumLess(probe.lng, probe'.lng) => NumLess(probe.x, probe'.x)
        /\ NumLess(probe.lat, probe'.lat) => NumLess(probe'.y, probe.y)

imagesFinite ==
    \A i \in DOMAIN probe.images :
        isFinite(probe.images[i].x) /\ isFinite(probe.images[i].y)

\* C27: when the bounding box has zero width or zero height (maxLng = minLng
\* or maxLat = minLat) toSvgCoords takes the scale ratio as 0, so the
\* coordinate is 0, and for every loaded geometry every coordinate it returns
\* is finite: nothing is divided by zero.
C27_DegenerateBoundsFinite ==
    probe.op = "project" =>
        /\ imagesFinite
        /\ probe.bounds.maxLng = probe.bounds.minLng =>
              \A i \in DOMAIN probe.images : probe.images[i].x = Num(0, 0)
        /\ probe.bounds.maxLat = probe.bounds.minLat =>
              \A i \in DOMAIN probe.images : probe.images[i].y = Num(0, 0)

\* The part of C27 that holds: where the padding has made the bounds wider
\* than nothing, every coordinate is finite, and a geometry of one longitude
\* (one latitude) lies on the middle line of the canvas, its ratio being 1/2.
C27_FiniteWherePadded ==
    (/\ probe.op = "project"
     /\ probe.bounds.maxLng # probe.bounds.minLng
     /\ probe.bounds.maxLat # probe.bounds.minLat) =>
        /\ imagesFinite
        /\ Cardinality({c[1] : c \in SeqRange(probe.geometry)}) = 1 =>
              \A i \in DOMAIN probe.images :
                  probe.images[i].x = fromInt(CanvasWidth \div 200)
        /\ Cardinality({c[2] : c \in SeqRange(probe.geometry)}) = 1 =>
              \A i \in DOMAIN probe.images :
                  probe.images[i].y = fromInt(CanvasHeight \div 200)

\* A geometry of one point has been projected under bounds that the padding
\* alone keeps apart.
C27_OnePointProjected ==
    /\ probe.op = "project"
    /\ Len(probe.geometry) = 1
    /\ probe.bounds.maxLng # probe.bounds.minLng
    /\ probe.images[1].x = fromInt(CanvasWidth \div 200)

\* The size of the view box has been scaled, both sides by one factor (to
\* within the rounding of the division).
scaledBy(factor) ==
    /\ viewBox'.width = (viewBox.width * factor[1]) \div factor[2]
    /\ viewBox'.height = (viewBox.height * factor[1]) \div factor[2]

\* C28: a pan or zoom gesture changes the view box and nothing else: a step
\* that changes the view box of the loaded editor leaves the panel states, the
\* history, the history index and the notes as they were, it either moves the
\* origin and keeps the size (a pan) or scales the size by 0.8, 1.25, 0.9 or
\* 1.1 (a zoom), and releasing the middle button after a pan leaves them as
\* they were too; undo and redo leave the view box as it was.
C28_ViewOnly ==
    [][/\ (panelsData /\ viewBox' # viewBox) =>
              /\ UNCHANGED <<panelStates, history, historyIndex, notes>>
              /\ \/ /\ viewBox'.width = viewBox.width
                    /\ viewBox'.height = viewBox.height
                 \/ \E factor \in {<<4, 5>>, <<5, 4>>, <<9, 10>>, <<11, 10>>} :
                        scaledBy(factor)
       /\ (isPanning /\ ~isSelecting /\ ~isNoteSelecting /\ ~isPanning') =>
              UNCHANGED <<panelStates, history, historyIndex, notes, viewBox>>
       /\ (historyIndex' # historyIndex /\ history' = history) =>
              viewBox' = viewBox]_vars

\* The view has been panned and zoomed with an end installed, a note placed
\* and an undo made, and the view box is not the loaded one.
C28_Witness ==
    /\ viewMoves = MaxViewMoves
    /\ viewBox.width # CanvasWidth
    /\ viewBox.x # 0
    /\ Len(notes) > 0
    /\ Len(history) > 1
    /\ historyIndex < Len(history) - 1

\* The panel side of the editor and the note side of it.
panelSide == <<panelStates, history, historyIndex>>

\* The step ends a panel gesture (a click or a box selection), or is an undo
\* or a redo that moves the history index.
panelStep ==
    \/ panelSide' # panelSide
    \/ upIsGesture /\ ~isSelecting'

\* The step creates, edits, selects or deletes notes, or ends a note gesture.
noteStep ==
    \/ notes' # notes
    \/ selectedNotes' # selectedNotes
    \/ upIsNoteGesture /\ ~isNoteSelecting'

\* C29: a step that creates, edits, selects or deletes notes leaves the panel
\* states, the history and the history index as they were, and an edit keeps
\* every note's id and place; a panel click, a box selection, an undo or a
\* redo leaves the notes as they were.
C29_NotesAndPanelsApart ==
    [][/\ noteStep => UNCHANGED panelSide
       /\ (Len(notes') = Len(notes) /\ notes' # notes) =>
              \A i \in DOMAIN notes :
                  /\ notes'[i].id = notes[i].id
                  /\ notes'[i].svgX = notes[i].svgX
                  /\ notes'[i].svgY = notes[i].svgY
       /\ panelStep => notes' = notes]_vars

\* A note with a text lies on a panel whose end has been installed by a
\* click that was then undone, with the note still selected.
C29_Witness ==
    /\ Len(notes) = 1
    /\ notes[1].text # <<>>
    /\ selectedNotes # {}
    /\ Len(history) > 1
    /\ historyIndex = 0

\* The ends of the panels in the box of the drag.
BoxEnds == BoxPanels \X Sides

\* C30: in a select drag the new state of an end in the box depends on the
\* state that end had and on nothing else: two ends in the box that had the
\* same state have the same state after, whichever panels they belong to and
\* whatever the other end of their panel was, at every history index; an end
\* that was None is Mc4Installed and one that was Mc4Installed is Terminated,
\* so a panel at (None, None) goes to (Mc4Installed, Mc4Installed), one at
\* (Mc4Installed, Mc4Installed) to (Terminated, Terminated) and one at
\* (Mc4Installed, None) to (Terminated, Mc4Installed).
C30_EndsAdvanceApart ==
    [][(Release /\ upIsDrag /\ ~isUnselectMode) =>
         /\ \A e, f \in BoxEnds :
              endState(panelStates, e[1], e[2]) = endState(panelStates, f[1], f[2]) =>
                  endState(panelStates', e[1], e[2]) = endState(panelStates', f[1], f[2])
         /\ \A e \in BoxEnds :
              /\ endState(panelStates, e[1], e[2]) = NONE =>
                    endState(panelStates', e[1], e[2]) = MC4_INSTALLED
              /\ endState(panelStates, e[1], e[2]) = MC4_INSTALLED =>
                    endState(panelStates', e[1], e[2]) = TERMINATED]_vars

\* A select drag has just taken a panel from (Mc4Installed, None) to
\* (Terminated, Mc4Installed) and another panel in the same box from
\* (None, None) to (Mc4Installed, Mc4Installed), after an earlier snapshot.
C30_Witness ==
    /\ lastOp.op = "select"
    /\ historyIndex = lastOp.at + 1
    /\ historyIndex >= 2
    /\ \E i, j \in PanelIdx :
         /\ endState(history[historyIndex], i, "left") = MC4_INSTALLED
         /\ endState(history[historyIndex], i, "right") = NONE
         /\ endState(panelStates, i, "left") = TERMINATED
         /\ endState(panelStates, i, "right") = MC4_INSTALLED
         /\ endState(history[historyIndex], j, "left") = NONE
         /\ endState(history[historyIndex], j, "right") = NONE
         /\ endState(panelStates, j, "left") = MC4_INSTALLED
         /\ endState(panelStates, j, "right") = MC4_INSTALLED

\* The press and the release are less than the threshold apart in x and in y.
BelowThreshold ==
    /\ selectionEnd[1].x - selectionStart[1].x < DragThreshold
    /\ selectionStart[1].x - selectionEnd[1].x < DragThreshold
    /\ selectionEnd[1].y - selectionStart[1].y < DragThreshold
    /\ selectionStart[1].y - selectionEnd[1].y < DragThreshold

\* The end of the pressed panel that is nearer to the press point, the right
\* one when they are equally far.
NearerEnd ==
    LET ends == getPanelEnds(clickedElement.panelIndex)
        toLeft == (2 * selectionStart[1].x - ends.left.x) * (2 * selectionStart[1].x - ends.left.x)
                  + (2 * selectionStart[1].y - ends.left.y) * (2 * selectionStart[1].y - ends.left.y)
        toRight == (2 * selectionStart[1].x - ends.right.x) * (2 * selectionStart[1].x - ends.right.x)
                   + (2 * selectionStart[1].y - ends.right.y) * (2 * selectionStart[1].y - ends.right.y)
    IN  <<clickedElement.panelIndex, IF toLeft < toRight THEN "left" ELSE "right">>

\* C31: a press and release less than 0.05 apart both in x and in y is never
\* a box selection: pressed on a panel it is one click, which moves the end
\* nearer to the press point one step along the click cycle, leaves every
\* other end as it was and appends one snapshot; pressed anywhere else it
\* leaves the panel states, the history and the index as they were. A gesture
\* that reaches 0.05 in x or in y is a box selection: both ends of every panel
\* in the box advance (or are cleared, with the right button), the panels
\* outside the box are left as they were, and it is never a click.
C31_ThresholdSplitsClickFromBox ==
    [][(Release /\ ~isNoteSelecting /\ selectionStart # <<>> /\ selectionEnd # <<>>) =>
         /\ (BelowThreshold /\ clickedElement.panelIndex >= 0) =>
               /\ endState(panelStates', NearerEnd[1], NearerEnd[2])
                     = CycleStep(endState(panelStates, NearerEnd[1], NearerEnd[2]))
               /\ \A e \in Ends \ {NearerEnd} :
                     endState(panelStates', e[1], e[2]) = endState(panelStates, e[1], e[2])
               /\ AppendsOne
         /\ (BelowThreshold /\ clickedElement.panelIndex < 0) =>
               UNCHANGED <<panelStates, history, historyIndex>>
         /\ ~BelowThreshold =>
               /\ \A e \in Ends :
                     endState(panelStates', e[1], e[2]) =
                        IF e[1] \notin BoxPanels THEN endState(panelStates, e[1], e[2])
                        ELSE IF isUnselectMode THEN NONE
                        ELSE SelectStep(endState(panelStates, e[1], e[2]))
               /\ IF BoxPanels # {} THEN AppendsOne
                  ELSE UNCHANGED <<history, historyIndex>>]_vars

\* A click has moved the left end of panel 0 alone, and the next gesture, a
\* drag, has moved both of its ends.
C31_Witness ==
    /\ lastOp.op = "select"
    /\ historyIndex = 2
    /\ endState(history[2], 0, "left") = MC4_INSTALLED
    /\ endState(history[2], 0, "right") = NONE
    /\ endState(panelStates, 0, "left") = TERMINATED
    /\ endState(panelStates, 0, "right") = MC4_INSTALLED

\* The rectangle of the drag of the probe.
DragMinX == Min2(probe.selStart.x, probe.selEnd.x)
DragMaxX == Max2(probe.selStart.x, probe.selEnd.x)
DragMinY == Min2(probe.selStart.y, probe.selEnd.y)
DragMaxY == Max2(probe.selStart.y, probe.selEnd.y)

\* Some vertex of the polygon lies in the rectangle, its sides included.
VertexInRectangle ==
    \E i \in DOMAIN probe.allPoints :
        /\ DragMinX <= probe.allPoints[i].x /\ probe.allPoints[i].x <= DragMaxX
        /\ DragMinY <= probe.allPoints[i].y /\ probe.allPoints[i].y <= DragMaxY

\* Twice the signed area of the triangle a, b, c.
turn(a, b, c) == (b.x - a.x) * (c.y - a.y) - (b.y - a.y) * (c.x - a.x)

\* The point lies in the convex polygon, its sides included: it is on one
\* side of every edge. A polygon of fewer than three vertices has no inside.
inConvex(point, poly) ==
    LET after(i) == (i % Len(poly)) + 1
    IN  /\ Len(poly) >= 3
        /\ \/ \A i \in DOMAIN poly : turn(poly[i], poly[after(i)], point) >= 0
           \/ \A i \in DOMAIN poly : turn(poly[i], poly[after(i)], point) <= 0

CornerInPolygon ==
    \E c \in { Pt(DragMinX, DragMinY), Pt(DragMaxX, DragMinY),
               Pt(DragMaxX, DragMaxY), Pt(DragMinX, DragMaxY) } :
        inConvex(c, probe.allPoints)

\* The segment from a to b has a point on the line y = level with x from
\* lowX to highX: where the segment is at that height, by the exact quotient.
meetsLevel(a, b, level, lowX, highX) ==
    IF a.y = b.y
    THEN a.y = level /\ Max2(Min2(a.x, b.x), lowX) <= Min2(Max2(a.x, b.x), highX)
    ELSE /\ Min2(a.y, b.y) <= level /\ level <= Max2(a.y, b.y)
         /\ LET d == b.y - a.y
                n == a.x * d + (level - a.y) * (b.x - a.x)
            IN  IF d > 0 THEN lowX * d <= n /\ n <= highX * d
                ELSE lowX * d >= n /\ n >= highX * d

mirrored(point) == Pt(point.y, point.x)

\* Some edge of the polygon has a point in common with some side of the
\* rectangle.
EdgeMeetsRectangle ==
    \E i \in DOMAIN probe.allPoints :
        LET a == probe.allPoints[i]
            b == probe.allPoints[(i % Len(probe.allPoints)) + 1]
        IN  \/ meetsLevel(a, b, DragMinY, DragMinX, DragMaxX)
            \/ meetsLevel(a, b, DragMaxY, DragMinX, DragMaxX)
            \/ meetsLevel(mirrored(a), mirrored(b), DragMinX, DragMinY, DragMaxY)
            \/ meetsLevel(mirrored(a), mirrored(b), DragMaxX, DragMinY, DragMaxY)

\* C32: a panel is reported as inside the drag rectangle exactly when one of
\* its vertices lies in the rectangle (sides included), or a corner of the
\* rectangle lies in the polygon, or an edge of the polygon meets a side of
\* the rectangle; so a narrow rectangle across the panel that holds none of
\* its vertices selects it, a rectangle wholly within the panel selects it,
\* and a rectangle apart from the panel does not.
C32_InsideIffMeets ==
    probe.op = "box" =>
        (probe.inside <=> (VertexInRectangle \/ CornerInPolygon \/ EdgeMeetsRectangle))

\* A narrow rectangle across the polygon, holding none of its vertices and
\* with all its corners outside, has selected it.
C32_SliceSelects ==
    /\ probe.op = "box"
    /\ probe.inside
    /\ ~VertexInRectangle
    /\ ~CornerInPolygon
    /\ EdgeMeetsRectangle

\* A rectangle wholly within the polygon has selected it.
C32_WithinSelects ==
    /\ probe.op = "box"
    /\ probe.inside
    /\ ~VertexInRectangle
    /\ ~EdgeMeetsRectangle

\* A rectangle apart from a polygon of three vertices or more has not.
C32_ApartDoesNot ==
    /\ probe.op = "box"
    /\ ~probe.inside
    /\ Len(probe.allPoints) >= 3

\* C33: no gesture that changes the mapping is lost from the history. A
\* click or a box drag over panels made with the index at the last snapshot
\* keeps every snapshot there is and appends the new mapping as the last one,
\* so that n of them in a row take a history of length L to length L + n with
\* the n successive mappings in order; and what a click reads through
\* historyRef and historyIndexRef is the history and the index of the moment,
\* also directly after another click, drag, undo or redo.
C33_NoGestureLost ==
    /\ [](historyRef = history /\ historyIndexRef = historyIndex)
    /\ [][(ChangingGesture /\ historyIndex = Len(history) - 1) =>
            /\ history' = Append(history, panelStates')
            /\ historyIndex' = Len(history') - 1]_vars

\* A drag and then, directly after it, a click have each added their
\* snapshot to a history that a first gesture had begun.
C33_Witness ==
    /\ lastOp.op = "click"
    /\ lastOp.at = 2
    /\ historyIndex = 3
    /\ Len(history) = 4
    /\ \E i \in PanelIdx :
         /\ endState(history[3], i, "left") # endState(history[2], i, "left")
         /\ endState(history[3], i, "right") # endState(history[2], i, "right")
    /\ history[4] = panelStates
    /\ history[4] # history[3]

\* C34: a snapshot in the history is never modified. Whatever the step, a
\* click, a box selection, an undo or a redo, every snapshot up to the current
\* index is afterwards where it was and as it was; and an undo or a redo
\* leaves the whole sequence of snapshots, and so its length, as it was.
C34_SnapshotsKept ==
    [][/\ \A k \in 1..(historyIndex + 1) :
             k \in DOMAIN history' /\ history'[k] = history[k]
       /\ (Undo \/ Redo) => history' = history]_vars

\* A click made after an undo has replaced the snapshot that was undone, and
\* the snapshots below it are the ones of before.
C34_Witness ==
    /\ lastOp.op = "click"
    /\ lastOp.cut = 1
    /\ lastOp.at = 1
    /\ Len(history) = 3
    /\ history[2] # history[1]
    /\ history[3] # history[2]

\* The two mappings give every end the same state.
sameEnds(a, b) == \A e \in Ends : endState(a, e[1], e[2]) = endState(b, e[1], e[2])

\* C35: a box drag that changes the state of no end, though it covers
\* panels, appends no snapshot: every snapshot in the history differs, in the
\* state of some end, from the snapshot just before it.
C35_EverySnapshotDiffers ==
    \A k \in 2..Len(history) : ~sameEnds(history[k], history[k - 1])

\* The part of C35 that holds: a snapshot that repeats the one before it is
\* appended by a box drag over panels only, never by a click.
C35_OnlyDragsRepeat ==
    [][(history' # history /\ historyIndex' = Len(history') - 1
        /\ sameEnds(panelStates', panelStates)) =>
            (Release /\ upIsDrag /\ BoxPanels # {})]_vars

\* An unselect drag over a panel whose ends were None has appended a
\* snapshot that gives every end the state it had.
C35_IdleSnapshot ==
    /\ lastOp.op = "unselect"
    /\ historyIndex = lastOp.at + 1
    /\ sameEnds(history[historyIndex + 1], history[historyIndex])

\* C36: a box drag at or above the threshold whose rectangle meets no panel
\* leaves the panel states, the history, the history index, and with them
\* the snapshots that can be redone, and the notes as they were.
C36_EmptyBoxChangesNothing ==
    [][(Release /\ upIsDrag /\ BoxPanels = {}) =>
            UNCHANGED <<panelStates, history, historyIndex, notes>>]_vars

\* A select drag over the background has been made below the last snapshot,
\* with an end set, and what could be redone still can.
C36_Witness ==
    /\ lastOp.op = "select"
    /\ lastOp.at = historyIndex
    /\ historyIndex >= 1
    /\ historyIndex < Len(history) - 1
    /\ \E e \in Ends : endState(panelStates, e[1], e[2]) # NONE

\* The ids of the notes in the collection.
noteIds == { notes[i].id : i \in DOMAIN notes }

\* C37: in every state the selected note ids are ids of notes in the
\* collection, however box selection, bulk deletion, deletion from the editor
\* and the toggling of note mode are interleaved.
C37_SelectedNotesExist == selectedNotes \subseteq noteIds

\* The selection comes to name a missing note through the editor's Delete
\* button only.
C37_OnlyEditorDeleteStrands ==
    [][(selectedNotes \subseteq noteIds /\ ~(selectedNotes' \subseteq noteIds')) =>
            (editingNote # <<>> /\ editingNote' = <<>> /\
             notes' = deleteNote(notes, editingNote[1].id))]_vars

\* The editor's Delete button has removed a note that was selected.
C37_StrandedSelection ==
    /\ isAddingNote
    /\ editingNote = <<>>
    /\ selectedNotes # {}
    /\ ~(selectedNotes \subseteq noteIds)

\* The editor is closed or the note it shows has its id in the collection.
editedNoteKept(editing, ids) == editing = <<>> \/ editing[1].id \in ids

\* C38: while a note editor is open the note it edits is in the collection;
\* no deletion, by the Delete key, by the bulk delete of the toolbar or from
\* the editor, leaves the editor open on a note that is gone.
C38_EditedNoteExists == editedNoteKept(editingNote, noteIds)

\* The editor is left on a missing note by the deletion of the selected notes
\* only, which does not close it; the editor's own Delete button closes it.
C38_OnlyBulkDeleteStrands ==
    [][/\ (editedNoteKept(editingNote, noteIds) /\ ~editedNoteKept(editingNote', noteIds')) =>
            /\ isAddingNote
            /\ selectedNotes # {}
            /\ editingNote[1].id \in selectedNotes
            /\ notes' = deleteSelected(notes, selectedNotes)
            /\ editingNote' = editingNote
       /\ (editingNote # <<>> /\ notes' = deleteNote(notes, editingNote[1].id) /\ notes' # notes) =>
            (editingNote' = <<>> \/ editingNote[1].id \in selectedNotes)]_vars

\* The editor is open on a note that the deletion of the selection removed.
C38_StrandedEditor ==
    /\ editingNote # <<>>
    /\ notes = <<>>
    /\ selectedNotes = {}
    /\ lastOp.op \in {"deleteKey", "deleteButton"}

\* A step of one of the mouse handlers of the drawing surface.
surfaceGesture ==
    \/ MouseDownAt(PointerPositions)
    \/ MouseMoveAt(PointerPositions, StillSet)
    \/ handleMouseUp

\* C39: while note mode is active no mouse gesture on the drawing surface,
\* with any button, on a panel or over panels, changes a panel end state,
\* appends a snapshot or moves the history index.
C39_NoteModeShieldsPanels ==
    [][(isAddingNote /\ surfaceGesture) =>
            UNCHANGED <<panelStates, history, historyIndex>>]_vars

\* A press made in note mode starts no panel selection, and without a panel
\* selection pending no handler of the surface touches the panels in note
\* mode: the panels change in note mode only on the release of a press that
\* was made before the mode was switched on.
C39_PressedInNoteMode ==
    [][/\ (isAddingNote /\ MouseDownAt(PointerPositions)) =>
            UNCHANGED <<isSelecting, isPanning, selectionStart, selectionEnd>>
       /\ (isAddingNote /\ ~isSelecting /\ surfaceGesture) =>
            UNCHANGED <<panelStates, history, historyIndex>>]_vars

\* Note mode is on and the release of a press made before it was switched on
\* has just appended a snapshot.
C39_PanelChangedInNoteMode ==
    /\ isAddingNote
    /\ lastOp.op \in {"click", "select", "unselect"}
    /\ historyIndex = lastOp.at + 1
    /\ historyIndex = Len(history) - 1
    /\ history[historyIndex + 1] # history[historyIndex]

\* What lastOp records of a call of handleMouseUp.
ReleaseOps == {"up", "click", "select", "unselect", "noteOpen", "noteAdd", "noteDrag"}

\* C40: after every mouse-up or mouse-leave on the surface the editor is
\* idle, with panning, panel selection and note selection inactive and the
\* selection rectangle cleared; a pointer that leaves the surface in the
\* middle of a drag applies the pending selection as a release there would,
\* and once: the call of the handler that follows finds nothing pending and
\* changes nothing.
C40_ReleaseLeavesIdle ==
    /\ [](lastOp.op \in ReleaseOps =>
            /\ ~isPanning /\ ~isSelecting /\ ~isNoteSelecting
            /\ selectionStart = <<>> /\ selectionEnd = <<>>)
    /\ [][(lastOp.op \in ReleaseOps /\ (MouseLeave \/ MouseUp)) =>
                /\ UNCHANGED <<panelStates, history, historyIndex, notes, selectedNotes>>
                /\ lastOp'.op = "up"]_vars

\* A box selection has been applied by a call of the handler, and the call
\* after it has found the editor idle and left the snapshot as the last one.
C40_Witness ==
    /\ lastOp = Op("up", historyIndex, 0)
    /\ idle
    /\ historyIndex >= 1
    /\ historyIndex = Len(history) - 1
    /\ \E i \in DOMAIN panelStates :
        /\ endState(panelStates, i, "left") # NONE
        /\ endState(panelStates, i, "right") # NONE

====
